---- MODULE Spec2Model ----
(***************************************************************************)
(* A model of the CMinus-Language repository's two self-contained          *)
(* artifacts: the Identitie codec (64-bit integer <-> identifier-safe      *)
(* base-64 text) and the ByteChunk stream parser (continuation-bit chunk   *)
(* framing).                                                               *)
(*                                                                         *)
(* The Identitie implementation file (idte.c) is not part of the sources:  *)
(* its declarations and demonstration caller (idte.h) and its format       *)
(* description (identitie.md) are.  The fixed form follows the steps of    *)
(* identitie.md; the variable-length form, which identitie.md does not     *)
(* describe, is modelled from the specification.                           *)
(***************************************************************************)
EXTENDS Integers, Sequences, FiniteSets, Bags, TLC

VARIABLES
    \* ---- Identitie codec (idte.h main: original, encoded, len, decoded)
    value,      \* the u64 handed to the encoder, as 16 hexadecimal digits
    buf,        \* char encoded[12]: the characters before the terminator
    count,      \* the count the encoder returned
    mode,       \* which encoder filled buf: "none", "fixed" or "var"
    edits,      \* how many characters of buf were overwritten since
    status,     \* the decoder's return value
    decoded,    \* the decoder's out parameter
    pc,         \* position of the demonstration: start, encoded, decoded
    \* ---- ByteChunk stream parser
    pa,         \* the parser under study
    pb,         \* a second parser, fed a related stream
    input,      \* the bytes fed to pa so far
    inputB,     \* the bytes fed to pb so far
    suffix,     \* the part of both inputs that is common to pa and pb
    phase,      \* position of the stream: idle, prefix, stream, suffix, end
    markA,      \* chunks pa had begun when the common suffix started
    markB,      \* chunks pb had begun when the common suffix started
    \* ---- Type header (cm-types.h) and a range check written with it
    ty,         \* the type alias whose bound constants are read
    probe,      \* the number checked against the bounds
    lo,         \* what minof_<ty> evaluated to
    hi,         \* what maxof_<ty> evaluated to
    fits,       \* the outcome of lo <= probe && probe <= hi
    hpc,        \* position of the range check: idle, start, checked
    \* ---- CLI entry stubs (cm, cmin, cminus)
    cmd,        \* the stub that is called
    argc,       \* its argument count
    argv,       \* its argument vector
    stdout,     \* the lines printed so far
    ret,        \* the stub's return value
    cpc,        \* position of the call: idle, start, returned
    \* ---- Guard/Boil: compiled call sites run on a chain of calls
    chain,          \* chain[i]: the operator of frame i's call of frame i+1
    buckets,        \* __buckets: the buckets in scope, innermost first
    depth,          \* the frame that is running (0: the program returned)
    gpc,            \* idle, call, check, done, crashed; guard, finally, test
    currentError,   \* __current_error
    retval,         \* the value the last return handed to its caller
    xs,             \* xs[i]: the variable frame i assigns its call to
    ranNext,        \* the frames whose statement after the call has run
    retryCount,     \* __retry_count
    shouldRetry,    \* __should_retry_call
    lastEvent,      \* what the last step did with the error channel
    reinvoked,      \* how many times a call site re-invoked its call
    stmt,           \* how the body of a guard block is left
    cleanups,       \* how many times the finally block has run
    errorHasHandled, \* error_has_handled of a compiled guard block
    \* ---- Error flow analysis (ErrorFlowAnalyzer.analyze) of one function
    calls,           \* f.calls: each call's operator and its callee's errors
    scope,           \* f.scope: the types of the buckets visible to f
    declared_errors, \* f.declared_errors
    can_produce,     \* f.can_produce
    flows,           \* the error types f's flow handlers take
    diagnostics,     \* the errors emitted: the build fails when there is one
    warnings,        \* the warnings emitted
    nextCall,        \* the call the loop is at
    apc,             \* position of the analysis: idle, calls, signature, done
    removed,         \* whether a bucket was taken out of f.scope: no, required, other
    \* ---- Preprocessor: one source text expanded directive by directive
    defs,          \* each name's binding: none, a #def constant, a #set variable
    expanded,      \* the expanded source text produced so far, token by token
    directive,     \* the directive or name just processed
    aborted,       \* an error has stopped the compilation
    files,         \* the file the file functions work on: exists, content
    Debug,         \* the built-in mode constant $Debug
    source,        \* the source text read so far, kept for a second run
    run,           \* the compilation running: 0 none, 1 first, 2 second
    dp,            \* the number of directives this compilation has processed
    firstExpanded, \* the expanded source text of the first compilation
    \* ---- Static tables: one table declaration compiled and accessed
    keys,       \* the keys of the declaration, in order, as spelled
    values,     \* the values of the declaration, in order
    internal,   \* the canonical internal string of each key
    mapping,    \* the compile-time mapping key -> index
    table_data, \* the static array Name_table[]
    access,     \* the last access: its form, operand, result
    tpc         \* declared, normalized, accepted, rejected, lowered, accessed

idteVars == <<value, buf, count, mode, edits, status, decoded, pc>>
bcVars == <<pa, pb, input, inputB, suffix, phase, markA, markB>>
hdrVars == <<ty, probe, lo, hi, fits, hpc>>
cliVars == <<cmd, argc, argv, stdout, ret, cpc>>
gbVars == <<chain, buckets, depth, gpc, currentError, retval, xs, ranNext,
            retryCount, shouldRetry, lastEvent, reinvoked, stmt, cleanups,
            errorHasHandled>>
anVars == <<calls, scope, declared_errors, can_produce, flows, diagnostics,
            warnings, nextCall, apc, removed>>
ppVars == <<defs, expanded, directive, aborted, files, Debug,
           source, run, dp, firstExpanded>>
tbVars == <<keys, values, internal, mapping, table_data, access, tpc>>
vars == <<value, buf, count, mode, edits, status, decoded, pc,
          pa, pb, input, inputB, suffix, phase, markA, markB,
          ty, probe, lo, hi, fits, hpc,
          cmd, argc, argv, stdout, ret, cpc,
          chain, buckets, depth, gpc, currentError, retval, xs, ranNext,
          retryCount, shouldRetry, lastEvent, reinvoked, stmt, cleanups,
          errorHasHandled,
          calls, scope, declared_errors, can_produce, flows, diagnostics,
          warnings, nextCall, apc, removed,
          defs, expanded, directive, aborted, files, Debug,
          source, run, dp, firstExpanded,
          keys, values, internal, mapping, table_data, access, tpc>>

\* What an action of one component leaves alone: every other component.
varsButIdte == <<bcVars, hdrVars, cliVars, gbVars,
               anVars,
               ppVars,
               tbVars>>
varsButBC == <<idteVars, hdrVars, cliVars, gbVars,
               anVars,
               ppVars,
               tbVars>>
varsButHdr == <<idteVars, bcVars, cliVars, gbVars,
               anVars,
               ppVars,
               tbVars>>
varsButCli == <<idteVars, bcVars, hdrVars, gbVars,
               anVars,
               ppVars,
               tbVars>>
varsButGB == <<idteVars, bcVars, hdrVars, cliVars,
               anVars,
               ppVars,
               tbVars>>
varsButAn == <<idteVars, bcVars, hdrVars, cliVars, gbVars,
               ppVars,
               tbVars>>
varsButPP == <<idteVars, bcVars, hdrVars, cliVars, gbVars, anVars,
               tbVars>>
varsButTb == <<idteVars, bcVars, hdrVars, cliVars, gbVars, anVars, ppVars>>

----------------------------------------------------------------------------
(* Identitie: constants of idte.h and identitie.md *)

IDTE_SIZE == 64
IDTE_SUCCESS == 0
IDTE_INVALID == 1
U64_BITS == 64
BITS_PER_CHAR == 6
HASH_LEN == 11

\* char encoded[12]; of the demonstration
EncodedSize == 12

\* Bound: how many characters of an encoded buffer may be overwritten
\* before it is decoded.
MaxEdits == 1

\* A plausible slip: the last two symbols of the standard base-64 alphabet.
AlphabetBase64 ==
  << "0", "1", "2", "3", "4", "5", "6", "7", "8", "9", "a", "b", "c", "d", "e", "f",
     "g", "h", "i", "j", "k", "l", "m", "n", "o", "p", "q", "r", "s", "t", "u", "v",
     "w", "x", "y", "z", "A", "B", "C", "D", "E", "F", "G", "H", "I", "J", "K", "L",
     "M", "N", "O", "P", "Q", "R", "S", "T", "U", "V", "W", "X", "Y", "Z", "+", "/" >>

\* A plausible slip: the ambiguous glyphs O and l "avoided" by repeating
\* their look-alikes 0 and 1.
AlphabetNoAmbiguous ==
  << "0", "1", "2", "3", "4", "5", "6", "7", "8", "9", "a", "b", "c", "d", "e", "f",
     "g", "h", "i", "j", "k", "1", "m", "n", "o", "p", "q", "r", "s", "t", "u", "v",
     "w", "x", "y", "z", "A", "B", "C", "D", "E", "F", "G", "H", "I", "J", "K", "L",
     "M", "N", "0", "P", "Q", "R", "S", "T", "U", "V", "W", "X", "Y", "Z", "_", "$" >>

\* Index -> character; TLA+ sequences are 1-based, so index i is Alphabet[i+1].
Alphabet ==
  << "0", "1", "2", "3", "4", "5", "6", "7", "8", "9", "a", "b", "c", "d", "e", "f",
     "g", "h", "i", "j", "k", "l", "m", "n", "o", "p", "q", "r", "s", "t", "u", "v",
     "w", "x", "y", "z", "A", "B", "C", "D", "E", "F", "G", "H", "I", "J", "K", "L",
     "M", "N", "O", "P", "Q", "R", "S", "T", "U", "V", "W", "X", "Y", "Z", "_", "$" >>

\* A plausible slip: a zero-initialised table, so that a character the
\* alphabet does not hold reads as index 0.
LookupZeroFilled(c) ==
  IF \E i \in 0 .. IDTE_SIZE - 1 : Alphabet[i + 1] = c
  THEN CHOOSE i \in 0 .. IDTE_SIZE - 1 : Alphabet[i + 1] = c
  ELSE 0

\* The decoder's lookup table: the 6-bit index of a character (the least
\* one, should a symbol repeat), or IDTE_SIZE, which is no index, for a
\* character the alphabet does not hold.
Lookup(c) ==
  IF \E i \in 0 .. IDTE_SIZE - 1 : Alphabet[i + 1] = c
  THEN CHOOSE i \in 0 .. IDTE_SIZE - 1 :
         /\ Alphabet[i + 1] = c
         /\ \A j \in 0 .. i - 1 : Alphabet[j + 1] # c
  ELSE IDTE_SIZE

----------------------------------------------------------------------------
(* uint64_t as its 16 hexadecimal digits, most significant first         *)
(* (0xFE21B3A4D9C8E712 is <<15, 14, 2, 1, ...>>), read and built bit by   *)
(* bit, bit 0 the least significant: the operations keep the width, so a  *)
(* left shift loses the bits it pushes out                                *)

BitIdx == 0 .. U64_BITS - 1

BitOf(n, i) == (n \div (2 ^ i)) % 2

\* Bit i of a u64.
BitAt(v, i) == BitOf(v[U64_BITS \div 4 - (i \div 4)], i % 4)

\* Hexadecimal digit k (1 the most significant) of the u64 whose bit i is b[i].
HexDigit(b, k) ==
  LET base == 4 * (U64_BITS \div 4 - k)
  IN  b[base] + 2 * b[base + 1] + 4 * b[base + 2] + 8 * b[base + 3]

\* The u64 whose bit i is b[i].
FromBits(b) ==
  << HexDigit(b, 1), HexDigit(b, 2), HexDigit(b, 3), HexDigit(b, 4),
     HexDigit(b, 5), HexDigit(b, 6), HexDigit(b, 7), HexDigit(b, 8),
     HexDigit(b, 9), HexDigit(b, 10), HexDigit(b, 11), HexDigit(b, 12),
     HexDigit(b, 13), HexDigit(b, 14), HexDigit(b, 15), HexDigit(b, 16) >>

U64Zero == [k \in 1 .. U64_BITS \div 4 |-> 0]

\* value & 0x3F
Low6(v) ==
  BitAt(v, 0) + 2 * BitAt(v, 1) + 4 * BitAt(v, 2) + 8 * BitAt(v, 3)
    + 16 * BitAt(v, 4) + 32 * BitAt(v, 5)

\* value >> 6
Shr6(v) ==
  FromBits([i \in BitIdx |->
              IF i + BITS_PER_CHAR < U64_BITS THEN BitAt(v, i + BITS_PER_CHAR) ELSE 0])

\* (value << 6) | idx, for idx < 64
Shl6Or(v, idx) ==
  FromBits([i \in BitIdx |->
              IF i < BITS_PER_CHAR THEN BitOf(idx, i) ELSE BitAt(v, i - BITS_PER_CHAR)])

----------------------------------------------------------------------------
(* Identitie, fixed form: the steps of identitie.md, Encoding and Decoding *)

\* Bit j of the value "padded at the top with zeros": the 11 groups span
\* 66 bits, of which the value has the low 64.
PaddedBit(v, j) == IF j < U64_BITS THEN BitAt(v, j) ELSE 0

\* The g-th of the 11 six-bit groups, g = 1 the most significant.
Group(v, g) ==
  LET base == BITS_PER_CHAR * (HASH_LEN - g)
  IN  PaddedBit(v, base) + 2 * PaddedBit(v, base + 1)
        + 4 * PaddedBit(v, base + 2) + 8 * PaddedBit(v, base + 3)
        + 16 * PaddedBit(v, base + 4) + 32 * PaddedBit(v, base + 5)

\* A plausible slip: the groups concatenated least significant first.
IDTE_encodeHashLsbFirst(v) ==
  [out |-> [g \in 1 .. HASH_LEN |-> Alphabet[Group(v, HASH_LEN + 1 - g) + 1]],
   n |-> HASH_LEN]

\* u32 IDTE_encodeHash(u64 value, char out[12]): each group converted to
\* its character, concatenated most significant first; returns the count.
IDTE_encodeHash(v) ==
  [out |-> [g \in 1 .. HASH_LEN |-> Alphabet[Group(v, g) + 1]],
   n |-> HASH_LEN]

\* "Validate that all characters are in the Identitie alphabet."
ValidHash(in) == \A g \in 1 .. HASH_LEN : Lookup(in[g]) < IDTE_SIZE

\* "Concatenate the 11 values into a 66-bit binary number": bit j, bit 0
\* the least significant, comes from character 11 - j div 6.
Concat(in) ==
  [j \in 0 .. BITS_PER_CHAR * HASH_LEN - 1 |->
     BitOf(Lookup(in[HASH_LEN - (j \div BITS_PER_CHAR)]), j % BITS_PER_CHAR)]

\* A plausible slip: a string whose 66-bit number does not fit 64 bits is
\* refused instead of truncated.
IDTE_decodeHashStrict(in) ==
  IF ValidHash(in) /\ Concat(in)[64] = 0 /\ Concat(in)[65] = 0
  THEN [status |-> IDTE_SUCCESS, written |-> TRUE,
        value |-> FromBits([i \in BitIdx |-> Concat(in)[i]])]
  ELSE [status |-> IDTE_INVALID, written |-> FALSE, value |-> U64Zero]

\* uint8_t IDTE_decodeHash(const char in[12], u64* out_value): "discard the
\* top 2 bits (only the lower 64 bits are valid)"; written tells whether
\* *out_value was assigned.
IDTE_decodeHash(in) ==
  IF ValidHash(in)
  THEN [status |-> IDTE_SUCCESS, written |-> TRUE,
        value |-> FromBits([i \in BitIdx |-> Concat(in)[i]])]
  ELSE [status |-> IDTE_INVALID, written |-> FALSE, value |-> U64Zero]

----------------------------------------------------------------------------
(* Identitie, variable-length form: declared in idte.h, the implementation *)
(* is not among the sources; modelled from the specification ("only as     *)
(* many characters as needed", "explicit input length") as the loops a C   *)
(* implementation over uint64_t performs                                   *)

\* do { tmp[n++] = ALPHABET[value & 0x3F]; value >>= 6; } while (value != 0);
\* then reversed into out: only the characters the value needs, at least one.
\* A plausible slip: the loop tests before it emits, and writes nothing
\* for the value 0.
RECURSIVE EncodeLoopWhile(_)
EncodeLoopWhile(v) ==
  IF v = U64Zero THEN << >>
  ELSE Append(EncodeLoopWhile(Shr6(v)), Alphabet[Low6(v) + 1])

RECURSIVE EncodeLoop(_)
EncodeLoop(v) ==
  IF Shr6(v) = U64Zero THEN << Alphabet[Low6(v) + 1] >>
  ELSE Append(EncodeLoop(Shr6(v)), Alphabet[Low6(v) + 1])

\* u32 IDTE_encode(u64 value, char* out): returns the number of characters
\* written, the terminator excluded.
IDTE_encode(v) ==
  LET out == EncodeLoop(v)
  IN  [out |-> out, n |-> Len(out)]

\* for (i = 0; i < length; i++) {
\*   idx = LOOKUP[in[i]]; if (idx >= IDTE_SIZE) return IDTE_INVALID;
\*   acc = (acc << 6) | idx; }
\* *out = acc; return IDTE_SUCCESS;
\* (acc is a u64 after every iteration: the shift keeps the width.)
RECURSIVE DecodeLoop(_, _, _, _)
DecodeLoop(in, i, length, acc) ==
  IF i > length THEN [status |-> IDTE_SUCCESS, written |-> TRUE, value |-> acc]
  ELSE IF Lookup(in[i]) >= IDTE_SIZE
       THEN [status |-> IDTE_INVALID, written |-> FALSE, value |-> acc]
       ELSE LET next == Shl6Or(acc, Lookup(in[i]))
            IN  CASE Len(next) = Len(acc) -> DecodeLoop(in, i + 1, length, next)

\* u8 IDTE_decode(const char* in, u32 length, u64* out)
IDTE_decode(in, length) == DecodeLoop(in, 1, length, U64Zero)

----------------------------------------------------------------------------
(* Identitie: the inputs the demonstration is run on *)

\* 2^k
Pow2(k) == FromBits([i \in BitIdx |-> IF i = k THEN 1 ELSE 0])

\* 2^k - 1
Ones(k) == FromBits([i \in BitIdx |-> IF i < k THEN 1 ELSE 0])

\* uint64_t original = 0xFE21B3A4D9C8E712ULL;
DemoValue == << 15, 14, 2, 1, 11, 3, 10, 4, 13, 9, 12, 8, 14, 7, 1, 2 >>

\* 0, 2^64-1, 2^63, the demonstration's value, the values at which the
\* variable-length form changes length (64^j - 1 and 64^j), and bit patterns
\* whose six-bit groups are 21, 42, 50, 62 and mixed.
Values ==
  { U64Zero, Ones(U64_BITS), Pow2(U64_BITS - 1), DemoValue }
    \cup { Pow2(BITS_PER_CHAR * j) : j \in 0 .. HASH_LEN - 1 }
    \cup { Ones(BITS_PER_CHAR * j) : j \in 1 .. HASH_LEN - 1 }
    \cup { << 5, 5, 5, 5, 5, 5, 5, 5, 5, 5, 5, 5, 5, 5, 5, 5 >>,
           << 10, 10, 10, 10, 10, 10, 10, 10, 10, 10, 10, 10, 10, 10, 10, 10 >>,
           << 0, 1, 2, 3, 4, 5, 6, 7, 8, 9, 10, 11, 12, 13, 14, 15 >>,
           << 0, 0, 0, 0, 0, 0, 0, 0, 0, 0, 0, 0, 0, 0, 3, 2 >>,
           << 0, 0, 0, 0, 0, 0, 0, 0, 0, 0, 0, 0, 0, 0, 3, 14 >> }

\* Characters an encoded buffer may be overwritten with: three that are not
\* in the alphabet, and the symbols of index 50 and 63.
EditChars == { " ", "@", "+", "O", "$" }

----------------------------------------------------------------------------
(* ByteChunk: the byte classes and the parser of encoding.md, section 2 *)

\* Bounds: the bytes of one stream, of a private prefix, of a common suffix.
MaxStream == 4
MaxPrefix == 2
MaxSuffix == 3

\* The configured maximum chunk size (encoding.md, 3.1: at least 1 byte,
\* 4,096 by default, configurable), here configured to 3 bytes.  The parsing
\* algorithm of section 2 has no step that reads it.
MaxChunkSize == 3

\* The byte values streams are drawn from: 0x41 and 0x45 (start bytes),
\* 0x80 and 0x82 (continuation bytes); 0x80 is the least byte with bit 7 set.
Bytes == { 65, 69, 128, 130 }

\* Start byte: bit 7 (the continuation flag) is clear.
IsStartByte(b) == BitOf(b, 7) = 0

\* Continuation byte: bit 7 is set.
IsContinuationByte(b) == BitOf(b, 7) = 1

\* The parser before its first byte: waiting for a start byte, no chunk
\* under construction, nothing emitted.
ParserInit == [state |-> "WaitingForStart", chunk |-> << >>, out |-> << >>]

\* A plausible slip: a start byte met in a chunk is appended like any other
\* byte, and the chunk is never completed.
ParseByteMerge(p, b) ==
  IF p.state = "WaitingForStart"
  THEN IF IsStartByte(b)
       THEN [p EXCEPT !.chunk = << b >>, !.state = "InChunk"]
       ELSE p
  ELSE [p EXCEPT !.chunk = Append(@, b)]

\* A plausible slip: a continuation byte met while waiting begins a chunk.
ParseByteKeepStray(p, b) ==
  IF p.state = "WaitingForStart"
  THEN [p EXCEPT !.chunk = << b >>, !.state = "InChunk"]
  ELSE IF IsContinuationByte(b)
       THEN [p EXCEPT !.chunk = Append(@, b)]
       ELSE [p EXCEPT !.out = Append(@, p.chunk), !.chunk = << b >>]

\* A plausible slip: a start byte met in a chunk completes the chunk and
\* is itself lost, the parser going back to waiting.
ParseByteDropStart(p, b) ==
  IF p.state = "WaitingForStart"
  THEN IF IsStartByte(b)
       THEN [p EXCEPT !.chunk = << b >>, !.state = "InChunk"]
       ELSE p
  ELSE IF IsContinuationByte(b)
       THEN [p EXCEPT !.chunk = Append(@, b)]
       ELSE [p EXCEPT !.out = Append(@, p.chunk), !.chunk = << >>,
                      !.state = "WaitingForStart"]

\* "For each incoming byte": one step of the state machine.  chunk is the
\* chunk under construction, out the completed chunks in emission order.
ParseByte(p, b) ==
  IF p.state = "WaitingForStart"
  THEN IF IsStartByte(b)
       THEN [p EXCEPT !.chunk = << b >>, !.state = "InChunk"]
       ELSE p
  ELSE IF IsContinuationByte(b)
       THEN [p EXCEPT !.chunk = Append(@, b)]
       ELSE [p EXCEPT !.out = Append(@, p.chunk), !.chunk = << b >>]

\* "The chunk ends when another Start Byte appears or the stream ends": at
\* the end of the stream the chunk under construction is completed.
ParseEnd(p) ==
  IF p.state = "InChunk"
  THEN [state |-> "WaitingForStart", chunk |-> << >>, out |-> Append(p.out, p.chunk)]
  ELSE p

\* Every chunk the parser has produced: the emitted ones, then the one
\* under construction.
AllChunks(p) ==
  IF p.state = "InChunk" THEN Append(p.out, p.chunk) ELSE p.out

\* The chunks begun after the first m.
ChunksAfter(p, m) == SubSeq(AllChunks(p), m + 1, Len(AllChunks(p)))

----------------------------------------------------------------------------
(* Identitie: the demonstration program of idte.h, run on every value of   *)
(* Values, through either encoder, with the buffer optionally overwritten  *)
(* before it is decoded                                                    *)

IdteIdle ==
  /\ value = U64Zero
  /\ buf = << >>
  /\ count = 0
  /\ mode = "none"
  /\ edits = 0
  /\ status = -1
  /\ decoded = U64Zero
  /\ pc = "idle"

BCIdle ==
  /\ pa = ParserInit
  /\ pb = ParserInit
  /\ input = << >>
  /\ inputB = << >>
  /\ suffix = << >>
  /\ phase = "idle"
  /\ markA = 0
  /\ markB = 0

HdrIdle ==
  /\ ty = "none"
  /\ probe = [neg |-> FALSE, digits |-> << >>]
  /\ lo = [neg |-> FALSE, digits |-> << >>]
  /\ hi = [neg |-> FALSE, digits |-> << >>]
  /\ fits = FALSE
  /\ hpc = "idle"

CliIdle ==
  /\ cmd = "none"
  /\ argc = 0
  /\ argv = << >>
  /\ stdout = << >>
  /\ ret = -1
  /\ cpc = "idle"

GBIdle ==
  /\ chain = << >>
  /\ buckets = << >>
  /\ depth = 0
  /\ gpc = "idle"
  /\ currentError = "NO_ERROR"
  /\ retval = << >>
  /\ xs = << >>
  /\ ranNext = { }
  /\ retryCount = 0
  /\ shouldRetry = FALSE
  /\ lastEvent = "none"
  /\ reinvoked = 0
  /\ stmt = "none"
  /\ cleanups = 0
  /\ errorHasHandled = FALSE

AnIdle ==
  /\ calls = << >>
  /\ scope = << >>
  /\ declared_errors = { }
  /\ can_produce = { }
  /\ flows = { }
  /\ diagnostics = { }
  /\ warnings = { }
  /\ nextCall = 0
  /\ apc = "idle"
  /\ removed = "no"

PPIdle ==
  /\ defs = << >>
  /\ expanded = << >>
  /\ directive = << >>
  /\ aborted = FALSE
  /\ files = << >>
  /\ Debug = FALSE
  /\ source = << >>
  /\ run = 0
  /\ dp = 0
  /\ firstExpanded = << >>

TbIdle ==
  /\ keys = << >>
  /\ values = << >>
  /\ internal = << >>
  /\ mapping = { }
  /\ table_data = << >>
  /\ access = << >>
  /\ tpc = "idle"

\* Every component but one at rest.
IdleButIdte == BCIdle /\ HdrIdle /\ CliIdle /\ GBIdle /\ AnIdle /\ PPIdle /\ TbIdle
IdleButBC == IdteIdle /\ HdrIdle /\ CliIdle /\ GBIdle /\ AnIdle /\ PPIdle /\ TbIdle
IdleButHdr == IdteIdle /\ BCIdle /\ CliIdle /\ GBIdle /\ AnIdle /\ PPIdle /\ TbIdle
IdleButCli == IdteIdle /\ BCIdle /\ HdrIdle /\ GBIdle /\ AnIdle /\ PPIdle /\ TbIdle
IdleButGB == IdteIdle /\ BCIdle /\ HdrIdle /\ CliIdle /\ AnIdle /\ PPIdle /\ TbIdle
IdleButAn == IdteIdle /\ BCIdle /\ HdrIdle /\ CliIdle /\ GBIdle /\ PPIdle /\ TbIdle
IdleButPP == IdteIdle /\ BCIdle /\ HdrIdle /\ CliIdle /\ GBIdle /\ AnIdle /\ TbIdle
IdleButTb == IdteIdle /\ BCIdle /\ HdrIdle /\ CliIdle /\ GBIdle /\ AnIdle /\ PPIdle

\* main before its first call; encoded and decoded hold nothing yet and are
\* not read before they are written.
Init ==
  /\ value \in Values
  /\ buf = << >>
  /\ count = 0
  /\ mode = "none"
  /\ edits = 0
  /\ status = -1
  /\ decoded = U64Zero
  /\ pc = "start"
  /\ IdleButIdte

\* IDTE_encodeHash(original, encoded)
EncodeHash ==
  /\ pc = "start"
  /\ buf' = IDTE_encodeHash(value).out
  /\ count' = IDTE_encodeHash(value).n
  /\ mode' = "fixed"
  /\ pc' = "encoded"
  /\ UNCHANGED <<value, edits, status, decoded>>
  /\ UNCHANGED varsButIdte

\* int len = IDTE_encode(original, encoded);
Encode ==
  /\ pc = "start"
  /\ buf' = IDTE_encode(value).out
  /\ count' = IDTE_encode(value).n
  /\ mode' = "var"
  /\ pc' = "encoded"
  /\ UNCHANGED <<value, edits, status, decoded>>
  /\ UNCHANGED varsButIdte

\* The caller overwrites one character of the buffer: decoders receive
\* strings that no encoder produced.
Overwrite(i, c) ==
  /\ pc = "encoded"
  /\ edits < MaxEdits
  /\ i \in 1 .. Len(buf)
  /\ c # buf[i]
  /\ buf' = [buf EXCEPT ![i] = c]
  /\ edits' = edits + 1
  /\ UNCHANGED <<value, count, mode, status, decoded, pc>>
  /\ UNCHANGED varsButIdte

\* IDTE_decodeHash(encoded, &decoded): the out parameter is written on
\* success only.
DecodeHash ==
  /\ pc = "encoded"
  /\ mode = "fixed"
  /\ LET r == IDTE_decodeHash(buf)
     IN  /\ status' = r.status
         /\ decoded' = IF r.written THEN r.value ELSE decoded
  /\ pc' = "decoded"
  /\ UNCHANGED <<value, buf, count, mode, edits>>
  /\ UNCHANGED varsButIdte

\* IDTE_decode(encoded, len, &decoded)
Decode ==
  /\ pc = "encoded"
  /\ mode = "var"
  /\ LET r == IDTE_decode(buf, count)
     IN  /\ status' = r.status
         /\ decoded' = IF r.written THEN r.value ELSE decoded
  /\ pc' = "decoded"
  /\ UNCHANGED <<value, buf, count, mode, edits>>
  /\ UNCHANGED varsButIdte

Next ==
  \/ EncodeHash
  \/ Encode
  \/ \E i \in 1 .. HASH_LEN, c \in EditChars : Overwrite(i, c)
  \/ DecodeHash
  \/ Decode

Spec == Init /\ [][Next]_vars

----------------------------------------------------------------------------
(* ByteChunk: one parser fed a stream byte by byte, then the end of stream *)

InitBC ==
  /\ IdleButBC
  /\ pa = ParserInit
  /\ pb = ParserInit
  /\ input = << >>
  /\ inputB = << >>
  /\ suffix = << >>
  /\ phase = "stream"
  /\ markA = 0
  /\ markB = 0

\* One incoming byte.
Feed(b) ==
  /\ phase = "stream"
  /\ Len(input) < MaxStream
  /\ pa' = ParseByte(pa, b)
  /\ input' = Append(input, b)
  /\ UNCHANGED <<pb, inputB, suffix, phase, markA, markB>>
  /\ UNCHANGED varsButBC

\* The stream ends.
EndOfStream ==
  /\ phase = "stream"
  /\ pa' = ParseEnd(pa)
  /\ phase' = "end"
  /\ UNCHANGED <<pb, input, inputB, suffix, markA, markB>>
  /\ UNCHANGED varsButBC

NextBC ==
  \/ \E b \in Bytes : Feed(b)
  \/ EndOfStream

SpecBC == InitBC /\ [][NextBC]_vars

----------------------------------------------------------------------------
(* ByteChunk: two parsers consume private prefixes p and p', then the same *)
(* suffix s, whose first byte is a start byte                              *)

InitSync ==
  /\ IdleButBC
  /\ pa = ParserInit
  /\ pb = ParserInit
  /\ input = << >>
  /\ inputB = << >>
  /\ suffix = << >>
  /\ phase = "prefix"
  /\ markA = 0
  /\ markB = 0

\* One byte of p, to pa alone.
PrefixA(b) ==
  /\ phase = "prefix"
  /\ Len(input) < MaxPrefix
  /\ pa' = ParseByte(pa, b)
  /\ input' = Append(input, b)
  /\ UNCHANGED <<pb, inputB, suffix, phase, markA, markB>>
  /\ UNCHANGED varsButBC

\* One byte of p', to pb alone.
PrefixB(b) ==
  /\ phase = "prefix"
  /\ Len(inputB) < MaxPrefix
  /\ pb' = ParseByte(pb, b)
  /\ inputB' = Append(inputB, b)
  /\ UNCHANGED <<pa, input, suffix, phase, markA, markB>>
  /\ UNCHANGED varsButBC

\* One byte of s, to both parsers; the first one is a start byte, and the
\* chunks each parser had begun before it are counted.
FeedSuffix(b) ==
  /\ phase \in { "prefix", "suffix" }
  /\ Len(suffix) < MaxSuffix
  /\ suffix = << >> => IsStartByte(b)
  /\ pa' = ParseByte(pa, b)
  /\ pb' = ParseByte(pb, b)
  /\ input' = Append(input, b)
  /\ inputB' = Append(inputB, b)
  /\ suffix' = Append(suffix, b)
  /\ markA' = IF phase = "prefix" THEN Len(AllChunks(pa)) ELSE markA
  /\ markB' = IF phase = "prefix" THEN Len(AllChunks(pb)) ELSE markB
  /\ phase' = "suffix"
  /\ UNCHANGED varsButBC

\* Both streams end.
EndSync ==
  /\ phase = "suffix"
  /\ pa' = ParseEnd(pa)
  /\ pb' = ParseEnd(pb)
  /\ phase' = "end"
  /\ UNCHANGED <<input, inputB, suffix, markA, markB>>
  /\ UNCHANGED varsButBC

NextSync ==
  \/ \E b \in Bytes : PrefixA(b)
  \/ \E b \in Bytes : PrefixB(b)
  \/ \E b \in Bytes : FeedSuffix(b)
  \/ EndSync

SpecSync == InitSync /\ [][NextSync]_vars

----------------------------------------------------------------------------
(* ByteChunk: pa parses a stream, pb the same stream with exactly one byte *)
(* replaced by another byte value                                          *)

InitCorrupt ==
  /\ IdleButBC
  /\ pa = ParserInit
  /\ pb = ParserInit
  /\ input = << >>
  /\ inputB = << >>
  /\ suffix = << >>
  /\ phase = "stream"
  /\ markA = 0
  /\ markB = 0

\* The same byte to both parsers.
FeedBoth(b) ==
  /\ phase = "stream"
  /\ Len(input) < MaxStream
  /\ pa' = ParseByte(pa, b)
  /\ pb' = ParseByte(pb, b)
  /\ input' = Append(input, b)
  /\ inputB' = Append(inputB, b)
  /\ UNCHANGED <<suffix, phase, markA, markB>>
  /\ UNCHANGED varsButBC

\* The one corruption: pa receives b, pb receives c in its place.
FeedReplaced(b, c) ==
  /\ phase = "stream"
  /\ Len(input) < MaxStream
  /\ input = inputB
  /\ c # b
  /\ pa' = ParseByte(pa, b)
  /\ pb' = ParseByte(pb, c)
  /\ input' = Append(input, b)
  /\ inputB' = Append(inputB, c)
  /\ UNCHANGED <<suffix, phase, markA, markB>>
  /\ UNCHANGED varsButBC

\* Both streams end.
EndBoth ==
  /\ phase = "stream"
  /\ pa' = ParseEnd(pa)
  /\ pb' = ParseEnd(pb)
  /\ phase' = "end"
  /\ UNCHANGED <<input, inputB, suffix, markA, markB>>
  /\ UNCHANGED varsButBC

NextCorrupt ==
  \/ \E b \in Bytes : FeedBoth(b)
  \/ \E b \in Bytes, c \in Bytes : FeedReplaced(b, c)
  \/ EndBoth

SpecCorrupt == InitCorrupt /\ [][NextCorrupt]_vars

----------------------------------------------------------------------------
(* Identitie: what the claims are stated in.  The symbol table is written  *)
(* out here from the claims' own words (0-9, a-z, A-Z, '_', '$'), apart    *)
(* from the codec's Alphabet.                                              *)

Digits == << "0", "1", "2", "3", "4", "5", "6", "7", "8", "9" >>

Lowercase ==
  << "a", "b", "c", "d", "e", "f", "g", "h", "i", "j", "k", "l", "m",
     "n", "o", "p", "q", "r", "s", "t", "u", "v", "w", "x", "y", "z" >>

Uppercase ==
  << "A", "B", "C", "D", "E", "F", "G", "H", "I", "J", "K", "L", "M",
     "N", "O", "P", "Q", "R", "S", "T", "U", "V", "W", "X", "Y", "Z" >>

SymbolTable == Digits \o Lowercase \o Uppercase \o << "_", "$" >>

Range(s) == { s[i] : i \in DOMAIN s }

IdentSymbols == Range(SymbolTable)

SymbolIndex(c) == (CHOOSE i \in DOMAIN SymbolTable : SymbolTable[i] = c) - 1

AllSymbols(s) == \A i \in DOMAIN s : s[i] \in IdentSymbols

\* acc * 64 + d modulo 2^64, for a digit d < 64, on bit vectors.
Times64Plus(acc, d) ==
  FromBits([i \in 0 .. 63 |-> IF i < 6 THEN BitOf(d, i) ELSE BitAt(acc, i - 6)])

\* (sum of index_i * 64^(n-i)) mod 2^64 over the first n characters of s,
\* by Horner's rule, reduced modulo 2^64 at every step.
RECURSIVE SumMod64(_, _)
SumMod64(s, n) ==
  IF n = 0 THEN FromBits([i \in 0 .. 63 |-> 0])
  ELSE LET before == SumMod64(s, n - 1)
       IN  CASE Len(before) = 16 -> Times64Plus(before, SymbolIndex(s[n]))

\* C1: fixed-mode decode of the 11 characters fixed-mode encode(v) wrote
\* returns status 0 and the value v, for every value v.
C1_FixedRoundTrip ==
  (pc = "decoded" /\ mode = "fixed" /\ edits = 0)
    => (status = 0 /\ decoded = value /\ Len(buf) = 11)

C1_Witness ==
  /\ pc = "decoded" /\ mode = "fixed" /\ edits = 0
  /\ value = DemoValue
  /\ buf = << "f", "U", "x", "I", "W", "j", "p", "O", "e", "s", "i" >>
  /\ status = 0
  /\ decoded = DemoValue

\* C2: fixed-mode decode of an 11-character string with at least one
\* character outside the alphabet, at any position, returns status 1.
C2_InvalidRejected ==
  (pc = "decoded" /\ mode = "fixed" /\ Len(buf) = 11 /\ ~AllSymbols(buf))
    => status = 1

C2_Witness ==
  /\ pc = "decoded" /\ mode = "fixed"
  /\ value = DemoValue
  /\ buf = << "f", "U", "x", "I", "W", "j", "p", "O", "e", "s", "@" >>
  /\ status = 1

\* C3: fixed-mode encode returns exactly 11 characters, each one of the 64
\* symbols 0-9, a-z, A-Z, '_', '$', for every value including 0 and 2^64-1.
C3_FixedWellFormed ==
  (pc = "encoded" /\ mode = "fixed" /\ edits = 0)
    => (count = 11 /\ Len(buf) = 11 /\ AllSymbols(buf))

C3_Witness ==
  /\ pc = "encoded" /\ mode = "fixed" /\ edits = 0
  /\ value = Ones(64)
  /\ count = 11
  /\ buf = << "f", "$", "$", "$", "$", "$", "$", "$", "$", "$", "$" >>

\* C4: decode of any 11-character string over the alphabet succeeds with
\* the low 64 bits of the 66-bit concatenation of the indices; strings that
\* differ only in the top 2 bits (the first index, modulo 16) decode alike.
C4_DecodeLow64 ==
  (pc = "decoded" /\ mode = "fixed" /\ Len(buf) = 11 /\ AllSymbols(buf))
    => /\ status = 0
       /\ decoded = SumMod64(buf, 11)
       /\ \A c \in IdentSymbols :
            SymbolIndex(c) % 16 = SymbolIndex(buf[1]) % 16
              => LET r == IDTE_decodeHash([buf EXCEPT ![1] = c])
                 IN  r.status = 0 /\ r.value = decoded

C4_Witness ==
  /\ pc = "decoded" /\ mode = "fixed" /\ edits = 1
  /\ value = Ones(64)
  /\ buf = << "$", "$", "$", "$", "$", "$", "$", "$", "$", "$", "$" >>
  /\ status = 0
  /\ decoded = value

\* C5: variable-length decode of the n characters variable-length
\* encode(v) wrote, with length n, returns status 0 and the value v.
C5_VarRoundTrip ==
  (pc = "decoded" /\ mode = "var" /\ edits = 0)
    => (status = 0 /\ decoded = value /\ count = Len(buf))

C5_Witness ==
  /\ pc = "decoded" /\ mode = "var" /\ edits = 0
  /\ value = Pow2(6)
  /\ buf = << "1", "0" >>
  /\ count = 2
  /\ status = 0
  /\ decoded = value

----------------------------------------------------------------------------
(* ByteChunk: what the claims are stated in.  The byte classes are written *)
(* here by value (0x00-0x7F, 0x80-0xFF), apart from the parser's bit test. *)

StartValue(b) == b \in 0 .. 127

ContinuationValue(b) == b \in 128 .. 255

\* One start byte, first, then continuation bytes only.
WellFormedChunk(c) ==
  /\ Len(c) >= 1
  /\ StartValue(c[1])
  /\ \A j \in 2 .. Len(c) : ContinuationValue(c[j])

\* C7: every chunk emitted or under construction is non-empty, begins with
\* a start byte and holds continuation bytes only after it.
C7_ChunkInvariant ==
  /\ \A k \in DOMAIN pa.out : WellFormedChunk(pa.out[k])
  /\ pa.state = "InChunk" => WellFormedChunk(pa.chunk)
  /\ pa.state = "WaitingForStart" => pa.chunk = << >>

C7_Witness ==
  /\ phase = "stream"
  /\ input = << 128, 65, 69, 130 >>
  /\ pa.out = << << 65 >> >>
  /\ pa.state = "InChunk"
  /\ pa.chunk = << 69, 130 >>

\* C8: after any two prefixes p and p', the chunks the parser produces from
\* a common suffix s that begins with a start byte are the same.
C8_SelfSynchronizing ==
  phase \in { "suffix", "end" }
    => ChunksAfter(pa, markA) = ChunksAfter(pb, markB)

C8_Witness ==
  /\ phase = "end"
  /\ input = << 128, 130, 65, 130, 69 >>
  /\ inputB = << 65, 69, 65, 130, 69 >>
  /\ suffix = << 65, 130, 69 >>
  /\ markA = 0
  /\ markB = 2
  /\ ChunksAfter(pa, markA) = << << 65, 130 >>, << 69 >> >>
  /\ ChunksAfter(pb, markB) = << << 65, 130 >>, << 69 >> >>

\* C9: a continuation byte received while waiting for a start byte leaves
\* the parser as it was; an input of continuation bytes only (or empty)
\* yields no chunk, and 80 41 82 yields exactly the chunk 41 82.
C9_PreStartDiscard ==
  /\ [][ ( /\ pa.state = "WaitingForStart"
           /\ Len(input') = Len(input) + 1
           /\ ContinuationValue(input'[Len(input')]) )
         => pa' = pa ]_vars
  /\ []( (\A i \in DOMAIN input : ContinuationValue(input[i]))
           => (pa.out = << >> /\ pa.chunk = << >>) )
  /\ []( (phase = "end" /\ input = << 128, 65, 130 >>)
           => (pa.out = << << 65, 130 >> >> /\ pa.chunk = << >>) )

C9_Witness ==
  /\ phase = "end"
  /\ input = << 128, 65, 130 >>
  /\ pa.out = << << 65, 130 >> >>
  /\ pa.state = "WaitingForStart"

\* The bag of the chunks of a parse.
ChunkBag(cs) ==
  [c \in Range(cs) |-> Cardinality({ i \in DOMAIN cs : cs[i] = c })]

\* How many chunks of the original parse the other parse does not hold.
Missing(orig, other) == BagCardinality(ChunkBag(orig) (-) ChunkBag(other))

\* The position of the replaced byte.
ReplacedAt == CHOOSE k \in DOMAIN input : input[k] # inputB[k]

C11_InterruptedChunk ==
  (phase = "end" /\ input = << 65, 130, 128, 69 >>)
    => pa.out = << << 65, 130 >>, << 69 >> >>

\* C12: the chunk under construction and every emitted chunk hold at most
\* the configured maximum chunk size of bytes, whatever the input, a start
\* byte followed by a run of continuation bytes included.
C12_SizeCeiling ==
  /\ Len(pa.chunk) <= MaxChunkSize
  /\ \A k \in DOMAIN pa.out : Len(pa.out[k]) <= MaxChunkSize

----------------------------------------------------------------------------
(* Type header (cm-types.h): the aliases, and the bound constants as the   *)
(* header writes them.  TLC's integers are 32 bits wide, so a number is    *)
(* its sign and its decimal digits, most significant first; a constant is  *)
(* the literal of its #define: sign, digits and suffix.                    *)

Num(n, d) == [neg |-> n, digits |-> d]

Lit(n, d, sfx) == [neg |-> n, digits |-> d, suffix |-> sfx]

\* A bound that was not read yet: no number.
Unread == Num(FALSE, << >>)

\* a < b, for digit sequences without leading zeros
DigitsLess(a, b) ==
  \/ Len(a) < Len(b)
  \/ /\ Len(a) = Len(b)
     /\ \E i \in 1 .. Len(a) :
          a[i] < b[i] /\ \A j \in 1 .. i - 1 : a[j] = b[j]

\* Without its leading zeros (0 itself keeps one digit).
Strip(d) ==
  LET nz == { i \in 1 .. Len(d) : d[i] # 0 }
  IN  IF nz = { } THEN << 0 >>
      ELSE SubSeq(d, CHOOSE i \in nz : \A j \in nz : i <= j, Len(d))

\* b written in n digits
Pad(b, n) == [i \in 1 .. n - Len(b) |-> 0] \o b

\* The digits from position i on
From(d, i) == SubSeq(d, i, Len(d))

\* a - b for a >= b, in Len(a) digits: column i borrows from column i - 1
\* exactly when what a has right of it is less than what b has there.
SubDigits(a, b) ==
  LET n == Len(a)
      p == Pad(b, n)
      Borrow(i) == IF DigitsLess(From(a, i + 1), From(p, i + 1)) THEN 1 ELSE 0
  IN  [i \in 1 .. n |-> (a[i] - p[i] - Borrow(i) + 10) % 10] \o << >>

\* The decimal digits of 2^w, for the widths of the integer types and one
\* bit less.
Pow2Digits(w) ==
  CASE w = 7 -> << 1, 2, 8 >>
    [] w = 8 -> << 2, 5, 6 >>
    [] w = 15 -> << 3, 2, 7, 6, 8 >>
    [] w = 16 -> << 6, 5, 5, 3, 6 >>
    [] w = 31 -> << 2, 1, 4, 7, 4, 8, 3, 6, 4, 8 >>
    [] w = 32 -> << 4, 2, 9, 4, 9, 6, 7, 2, 9, 6 >>
    [] w = 63 ->
         << 9, 2, 2, 3, 3, 7, 2, 0, 3, 6, 8, 5, 4, 7, 7, 5, 8, 0, 8 >>
    [] w = 64 ->
         << 1, 8, 4, 4, 6, 7, 4, 4, 0, 7, 3, 7, 0, 9, 5, 5, 1, 6, 1, 6 >>

\* x <= y
NumLeq(x, y) ==
  IF x.neg /\ ~y.neg THEN TRUE
  ELSE IF ~x.neg /\ y.neg THEN FALSE
  ELSE IF x.neg THEN ~DigitsLess(x.digits, y.digits)
  ELSE ~DigitsLess(y.digits, x.digits)

\* typedef <underlying type> <alias>;
Typedef ==
  [byte |-> "signed char", ubyte |-> "unsigned char",
   i8 |-> "signed char", i16 |-> "signed short",
   i32 |-> "signed int", i64 |-> "signed long long",
   u8 |-> "unsigned char", u16 |-> "unsigned short",
   u32 |-> "unsigned int", u64 |-> "unsigned long long",
   c8 |-> "unsigned char", c16 |-> "unsigned short", c32 |-> "unsigned int"]

\* The underlying types: signedness, and the width the aliases' names
\* assume (char 8, short 16, int 32, long long 64 bits).
IsSignedType(c) ==
  c \in { "signed char", "signed short", "signed int", "signed long long" }

TypeBits(c) ==
  CASE c \in { "signed char", "unsigned char" } -> 8
    [] c \in { "signed short", "unsigned short" } -> 16
    [] c \in { "signed int", "unsigned int" } -> 32
    [] c \in { "signed long long", "unsigned long long" } -> 64

minof_byte == Lit(FALSE, << 0 >>, "")
minof_i8 == Lit(TRUE, << 1, 2, 8 >>, "")
minof_i16 == Lit(TRUE, << 3, 2, 7, 6, 8 >>, "")
minof_i32 == Lit(TRUE, << 2, 1, 4, 7, 4, 8, 3, 6, 4, 8 >>, "")
minof_i64 ==
  Lit(TRUE, << 9, 2, 2, 3, 3, 7, 2, 0, 3, 6, 8, 5, 4, 7, 7, 5, 8, 0, 8 >>, "LL")
minof_u8 == Lit(FALSE, << 0 >>, "")
minof_u16 == Lit(FALSE, << 0 >>, "")
minof_u32 == Lit(FALSE, << 0 >>, "")
minof_u64 == Lit(FALSE, << 0 >>, "")
minof_c8 == Lit(FALSE, << 0 >>, "")
minof_c16 == Lit(FALSE, << 0 >>, "")
minof_c32 == Lit(FALSE, << 0 >>, "")

maxof_byte == Lit(FALSE, << 2, 5, 5 >>, "")
maxof_i8 == Lit(FALSE, << 1, 2, 7 >>, "")
maxof_i16 == Lit(FALSE, << 3, 2, 7, 6, 7 >>, "")
maxof_i32 == Lit(FALSE, << 2, 1, 4, 7, 4, 8, 3, 6, 4, 7 >>, "")
maxof_i64 ==
  Lit(FALSE, << 9, 2, 2, 3, 3, 7, 2, 0, 3, 6, 8, 5, 4, 7, 7, 5, 8, 0, 7 >>, "LL")
maxof_u8 == Lit(FALSE, << 2, 5, 5 >>, "")
maxof_u16 == Lit(FALSE, << 6, 5, 5, 3, 5 >>, "")
maxof_u32 == Lit(FALSE, << 4, 2, 9, 4, 9, 6, 7, 2, 9, 5 >>, "U")
maxof_u64 ==
  Lit(FALSE, << 1, 8, 4, 4, 6, 7, 4, 4, 0, 7, 3, 7, 0, 9, 5, 5, 1, 6, 1, 5 >>, "ULL")
maxof_c8 == Lit(FALSE, << 2, 5, 5 >>, "")
maxof_c16 == Lit(FALSE, << 6, 5, 5, 3, 5 >>, "")
maxof_c32 == Lit(FALSE, << 4, 2, 9, 4, 9, 6, 7, 2, 9, 5 >>, "U")

\* minof_<t> and maxof_<t>, by alias.
minof ==
  [byte |-> minof_byte, i8 |-> minof_i8, i16 |-> minof_i16, i32 |-> minof_i32,
   i64 |-> minof_i64, u8 |-> minof_u8, u16 |-> minof_u16, u32 |-> minof_u32,
   u64 |-> minof_u64, c8 |-> minof_c8, c16 |-> minof_c16, c32 |-> minof_c32]

maxof ==
  [byte |-> maxof_byte, i8 |-> maxof_i8, i16 |-> maxof_i16, i32 |-> maxof_i32,
   i64 |-> maxof_i64, u8 |-> maxof_u8, u16 |-> maxof_u16, u32 |-> maxof_u32,
   u64 |-> maxof_u64, c8 |-> maxof_c8, c16 |-> maxof_c16, c32 |-> maxof_c32]

\* The aliases the header gives bound constants for.
BoundedTypes == DOMAIN minof

\* Whether a decimal literal has a type (C99 6.4.4.1): with no suffix or
\* LL the signed types up to long long, with U or ULL the unsigned ones.
LiteralHasType(m) ==
  IF m.suffix \in { "U", "ULL" }
  THEN DigitsLess(m.digits, Pow2Digits(64))
  ELSE DigitsLess(m.digits, Pow2Digits(63))

\* What a use of the constant evaluates to: the literal, negated when the
\* #define writes a minus sign before it.  A literal too large for its
\* types has no type; the builds that accept it either read it as unsigned
\* long long, whose negation is taken modulo 2^64, or give it a wider type.
MacroValues(m) ==
  IF LiteralHasType(m) \/ ~m.neg
  THEN { Num(m.neg, m.digits) }
  ELSE { Num(FALSE, Strip(SubDigits(Pow2Digits(64), m.digits))),
         Num(TRUE, m.digits) }

\* The numbers checked against the bounds: around every width's limits.
Probes ==
  { Num(TRUE, Pow2Digits(63)), Num(TRUE, Pow2Digits(31)),
    Num(TRUE, << 1, 2, 9 >>), Num(TRUE, Pow2Digits(7)), Num(TRUE, << 1 >>),
    Num(FALSE, << 0 >>), Num(FALSE, << 1, 2, 7 >>), Num(FALSE, Pow2Digits(7)),
    Num(FALSE, << 2, 5, 5 >>), Num(FALSE, Pow2Digits(8)),
    Num(FALSE, << 6, 5, 5, 3, 5 >>), Num(FALSE, Pow2Digits(31)),
    Num(FALSE, Pow2Digits(63)), Num(FALSE, Pow2Digits(64)) }

\* A translation unit that includes the header and checks a number against
\* the bounds of one alias: minof_T <= v && v <= maxof_T.
InitHdr ==
  /\ IdleButHdr
  /\ ty \in BoundedTypes
  /\ probe \in Probes
  /\ lo = Unread
  /\ hi = Unread
  /\ fits = FALSE
  /\ hpc = "start"

\* minof_<ty> is evaluated.
ReadMin ==
  /\ hpc = "start"
  /\ lo = Unread
  /\ lo' \in MacroValues(minof[ty])
  /\ UNCHANGED <<ty, probe, hi, fits, hpc>>
  /\ UNCHANGED varsButHdr

\* maxof_<ty> is evaluated.
ReadMax ==
  /\ hpc = "start"
  /\ hi = Unread
  /\ hi' \in MacroValues(maxof[ty])
  /\ UNCHANGED <<ty, probe, lo, fits, hpc>>
  /\ UNCHANGED varsButHdr

\* minof_T <= v && v <= maxof_T
RangeCheck ==
  /\ hpc = "start"
  /\ lo # Unread
  /\ hi # Unread
  /\ fits' = (NumLeq(lo, probe) /\ NumLeq(probe, hi))
  /\ hpc' = "checked"
  /\ UNCHANGED <<ty, probe, lo, hi>>
  /\ UNCHANGED varsButHdr

NextHdr ==
  \/ ReadMin
  \/ ReadMax
  \/ RangeCheck

SpecHdr == InitHdr /\ [][NextHdr]_vars

\* The least and the greatest number of the type an alias stands for:
\* -2^(w-1) and 2^(w-1) - 1 when it is signed, 0 and 2^w - 1 when unsigned.
ExactMin(t) ==
  IF IsSignedType(Typedef[t])
  THEN Num(TRUE, Pow2Digits(TypeBits(Typedef[t]) - 1))
  ELSE Num(FALSE, << 0 >>)

ExactMax(t) ==
  LET w == IF IsSignedType(Typedef[t])
           THEN TypeBits(Typedef[t]) - 1 ELSE TypeBits(Typedef[t])
  IN  Num(FALSE, Strip(SubDigits(Pow2Digits(w), << 1 >>)))

\* C13: for each of byte, i8..i64, u8..u64, c8..c32, minof_<type> and
\* maxof_<type> evaluate to the least and the greatest number of the
\* alias's underlying type.
C13_TypeBounds ==
  /\ lo # Unread => lo = ExactMin(ty)
  /\ hi # Unread => hi = ExactMax(ty)

----------------------------------------------------------------------------
(* CLI entry stubs: int cm(int argc, char **argv) and its two siblings,    *)
(* each a printf of a fixed line and a return                              *)

\* Bound: the length of an argument vector.
MaxArgs == 2

\* The strings argument vectors are made of.
Args == { "cm", "compile", "--show-c" }

\* A plausible slip: the usual command-line convention, a failure status
\* when no command follows the program name.
cmUsageStatus(c, v) ==
  [out |-> << "Hello C-Minus Compiler\n" >>, ret |-> IF c < 2 THEN 1 ELSE 0]

\* int cm(int argc, char **argv): what it prints and what it returns.
cm(c, v) == [out |-> << "Hello C-Minus Compiler\n" >>, ret |-> 0]

\* int cmin(int argc, char **argv)
cmin(c, v) == [out |-> << "Hello C-Minus Tools\n" >>, ret |-> 0]

\* int cminus(int argc, char **argv)
cminus(c, v) == [out |-> << "Hello C-Minus Documentation\n" >>, ret |-> 0]

\* The three entry points by name.
Stub(name, c, v) ==
  CASE name = "cm" -> cm(c, v)
    [] name = "cmin" -> cmin(c, v)
    [] name = "cminus" -> cminus(c, v)

Stubs == { "cm", "cmin", "cminus" }

\* All argument vectors of at most MaxArgs strings.
ArgVectors == UNION { [1 .. n -> Args] : n \in 0 .. MaxArgs }

\* A caller about to call one stub, with any count and any vector (the
\* stubs read neither, so the count need not be the vector's length).
InitCli ==
  /\ IdleButCli
  /\ cmd \in Stubs
  /\ argv \in ArgVectors
  /\ argc \in 0 .. MaxArgs + 1
  /\ stdout = << >>
  /\ ret = -1
  /\ cpc = "start"

\* The call: the stub's output reaches stdout, its value the caller.
CallStub ==
  /\ cpc = "start"
  /\ stdout' = stdout \o Stub(cmd, argc, argv).out
  /\ ret' = Stub(cmd, argc, argv).ret
  /\ cpc' = "returned"
  /\ UNCHANGED <<cmd, argc, argv>>
  /\ UNCHANGED varsButCli

NextCli == CallStub

SpecCli == InitCli /\ [][NextCli]_vars

\* C14: whatever the argument count and vector, a stub returns 0 and has
\* printed exactly one line, the one it prints when called with no
\* argument at all; the three stubs' lines differ from one another.
C14_StubContract ==
  cpc = "returned"
    => /\ ret = 0
       /\ Len(stdout) = 1
       /\ stdout = Stub(cmd, 0, << >>).out
       /\ Stub(cmd, 0, << >>).ret = 0
       /\ \A other \in Stubs \ { cmd } : stdout # Stub(other, 0, << >>).out

C14_Witness ==
  /\ cpc = "returned"
  /\ cmd = "cm"
  /\ argc = 0
  /\ argv = << "cm", "--show-c" >>
  /\ stdout = << "Hello C-Minus Compiler\n" >>
  /\ ret = 0

----------------------------------------------------------------------------
(* Guard/Boil (error-handling.md): the code the compiler emits after each  *)
(* kind of call, run on a chain of calls main -> ... -> a boiling function *)

\* Bounds: the frames making bare calls between the handling call site and
\* the boiling function; the buckets in scope; the retry limit, which the
\* sources name (MAX_RETRIES) and leave to the implementation.
MaxBare == 2
MaxBuckets == 2
MAX_RETRIES == 3

NO_ERROR == "NO_ERROR"

\* errtype MathError, errtype IoError
ErrTypes == { "MathError", "IoError" }

\* Type Default System: the default of a return type.
TypeDefault(t) ==
  CASE t = "int" -> << "0" >>
    [] t = "float" -> << "0.0" >>
    [] t = "bool" -> << "false" >>
    [] t = "string" -> << "" >>
    [] t = "pointer" -> << "null" >>

\* What a function of return type t returns when it does not fail.
NormalValue(t) ==
  CASE t = "int" -> << "5" >>
    [] t = "float" -> << "2.5" >>
    [] t = "bool" -> << "true" >>
    [] t = "string" -> << "ok" >>
    [] t = "pointer" -> << "&data" >>

\* The return type of the function of frame i (main returns int).
RType(i) == << "int", "bool", "string", "pointer", "float", "int" >>[i]

\* bucket <type> e { yield <value>; } and bucket ... { retry; }; type
\* "any" is the catch-all bucket<t>.  The bucket of nesting level k yields
\* the value YieldOf(k).
BucketDecls == [type : ErrTypes \cup { "any" }, retry : BOOLEAN]

YieldOf(k) == << "yield", << "a", "b", "c", "d" >>[k] >>

\* has_bucket_for(__buckets, __current_error.type_id)
has_bucket_for(bkts, e) ==
  \E k \in DOMAIN bkts : bkts[k].type \in { e, "any" }

\* The bucket bucket_handler runs: the innermost one that matches.
BucketFor(bkts, e) ==
  CHOOSE k \in DOMAIN bkts :
    /\ bkts[k].type \in { e, "any" }
    /\ \A j \in 1 .. k - 1 : bkts[j].type \notin { e, "any" }

\* flow <value>: the alternative value attached to a call.
FlowValue == << "flow" >>

\* What the code after a call does, given m: the error channel (err), the
\* value the callee returned (v), the retry globals (rc, sr), the buckets
\* in scope (bkts) and the type of the call's result (xtype).  kind tells
\* how the frame goes on: next (the following statement), return (at once,
\* with the frame's own default), retry (the call again), crash.

\* A plausible slip: the propagating return resets the error channel.
CallBareClearsError(m) ==
  IF m.err # NO_ERROR
  THEN [kind |-> "return", x |-> m.v, err |-> NO_ERROR, rc |-> m.rc, sr |-> m.sr,
        event |-> "propagate"]
  ELSE [kind |-> "next", x |-> m.v, err |-> m.err, rc |-> m.rc, sr |-> m.sr,
        event |-> "ok"]

\* Type 1, func():
\*   int x = divide(10, 0);
\*   if (__current_error != NO_ERROR) return TYPE_DEFAULT_FOR_RETURN_TYPE;
CallBare(m) ==
  IF m.err # NO_ERROR
  THEN [kind |-> "return", x |-> m.v, err |-> m.err, rc |-> m.rc, sr |-> m.sr,
        event |-> "propagate"]
  ELSE [kind |-> "next", x |-> m.v, err |-> m.err, rc |-> m.rc, sr |-> m.sr,
        event |-> "ok"]

\* A plausible slip: the default is assigned and the error left pending.
CallQuestKeepsError(m) ==
  IF m.err # NO_ERROR
  THEN [kind |-> "next", x |-> TypeDefault(m.xtype), err |-> m.err,
        rc |-> m.rc, sr |-> m.sr, event |-> "default"]
  ELSE [kind |-> "next", x |-> m.v, err |-> m.err, rc |-> m.rc, sr |-> m.sr,
        event |-> "ok"]

\* Type 2, func?():
\*   if (__current_error != NO_ERROR) { __current_error = NO_ERROR; x = 0; }
CallQuest(m) ==
  IF m.err # NO_ERROR
  THEN [kind |-> "next", x |-> TypeDefault(m.xtype), err |-> NO_ERROR,
        rc |-> m.rc, sr |-> m.sr, event |-> "default"]
  ELSE [kind |-> "next", x |-> m.v, err |-> m.err, rc |-> m.rc, sr |-> m.sr,
        event |-> "ok"]

\* func?() flow <value>: E-QUEST-ERR, then E-FLOW-DEFAULT.
CallQuestFlow(m) ==
  IF m.err # NO_ERROR
  THEN [kind |-> "next", x |-> FlowValue, err |-> NO_ERROR,
        rc |-> m.rc, sr |-> m.sr, event |-> "flow"]
  ELSE [kind |-> "next", x |-> m.v, err |-> m.err, rc |-> m.rc, sr |-> m.sr,
        event |-> "ok"]

\* A plausible slip: the handler's value is assigned and the error left
\* pending.
CallBangKeepsError(m) ==
  IF m.err = NO_ERROR
  THEN [kind |-> "next", x |-> m.v, err |-> m.err, rc |-> m.rc, sr |-> m.sr,
        event |-> "ok"]
  ELSE IF ~has_bucket_for(m.bkts, m.err)
  THEN [kind |-> "crash", x |-> m.v, err |-> m.err, rc |-> m.rc, sr |-> m.sr,
        event |-> "trap"]
  ELSE LET k == BucketFor(m.bkts, m.err)
           rc2 == IF m.bkts[k].retry THEN m.rc + 1 ELSE m.rc
           sr2 == m.sr \/ m.bkts[k].retry
       IN  [kind |-> IF sr2 /\ rc2 < MAX_RETRIES THEN "retry" ELSE "next",
            x |-> YieldOf(k), err |-> m.err, rc |-> rc2, sr |-> sr2,
            event |-> "bucket"]

\* A plausible slip: the handler asks for the retry without counting it.
CallBangUncounted(m) ==
  IF m.err = NO_ERROR
  THEN [kind |-> "next", x |-> m.v, err |-> m.err, rc |-> m.rc, sr |-> m.sr,
        event |-> "ok"]
  ELSE IF ~has_bucket_for(m.bkts, m.err)
  THEN [kind |-> "crash", x |-> m.v, err |-> m.err, rc |-> m.rc, sr |-> m.sr,
        event |-> "trap"]
  ELSE LET k == BucketFor(m.bkts, m.err)
           sr2 == m.sr \/ m.bkts[k].retry
       IN  [kind |-> IF sr2 /\ m.rc < MAX_RETRIES THEN "retry" ELSE "next",
            x |-> YieldOf(k), err |-> NO_ERROR, rc |-> m.rc, sr |-> sr2,
            event |-> "bucket"]

\* Type 3, func!(), with the retry of "yield, continue, retry Semantics":
\*   if (__current_error != NO_ERROR) {
\*     if (has_bucket_for(...)) {
\*       bucket_handler(__buckets, __current_error, &x);
\*         (in it: if (should_retry) { __should_retry_call = true;
\*                                     __retry_count++; })
\*       __current_error = NO_ERROR;
\*       if (__should_retry_call && __retry_count < MAX_RETRIES)
\*         goto retry_label;
\*     } else __builtin_trap(); }
\* Neither global is reset anywhere in the sources.
CallBang(m) ==
  IF m.err = NO_ERROR
  THEN [kind |-> "next", x |-> m.v, err |-> m.err, rc |-> m.rc, sr |-> m.sr,
        event |-> "ok"]
  ELSE IF ~has_bucket_for(m.bkts, m.err)
  THEN [kind |-> "crash", x |-> m.v, err |-> m.err, rc |-> m.rc, sr |-> m.sr,
        event |-> "trap"]
  ELSE LET k == BucketFor(m.bkts, m.err)
           rc2 == IF m.bkts[k].retry THEN m.rc + 1 ELSE m.rc
           sr2 == m.sr \/ m.bkts[k].retry
       IN  [kind |-> IF sr2 /\ rc2 < MAX_RETRIES THEN "retry" ELSE "next",
            x |-> YieldOf(k), err |-> NO_ERROR, rc |-> rc2, sr |-> sr2,
            event |-> "bucket"]

\* Type 4, func!!(): if (__current_error != NO_ERROR) __panic_with_error(...)
CallBangBang(m) ==
  IF m.err # NO_ERROR
  THEN [kind |-> "crash", x |-> m.v, err |-> m.err, rc |-> m.rc, sr |-> m.sr,
        event |-> "panic"]
  ELSE [kind |-> "next", x |-> m.v, err |-> m.err, rc |-> m.rc, sr |-> m.sr,
        event |-> "ok"]

\* Type 5, func??(): r = Result::Err(__current_error), the error cleared;
\* else r = Result::Ok(temp).
CallQuestQuest(m) ==
  IF m.err # NO_ERROR
  THEN [kind |-> "next", x |-> << "Err", m.err >>, err |-> NO_ERROR,
        rc |-> m.rc, sr |-> m.sr, event |-> "result"]
  ELSE [kind |-> "next", x |-> << "Ok" >> \o m.v, err |-> m.err,
        rc |-> m.rc, sr |-> m.sr, event |-> "ok"]

\* The call operators; a handling call site uses any but the bare call.
HandlingOps == { "?", "?flow", "!", "!!", "??" }

\* The code after the call of operator op.
AfterCall(op, m) ==
  CASE op = "bare" -> CallBare(m)
    [] op = "?" -> CallQuest(m)
    [] op = "?flow" -> CallQuestFlow(m)
    [] op = "!" -> CallBang(m)
    [] op = "!!" -> CallBangBang(m)
    [] op = "??" -> CallQuestQuest(m)

\* The programs: main calls with a handling operator; MaxBare or fewer
\* frames of bare calls lie between it and the boiling function.
Chains ==
  { << op >> \o [i \in 1 .. k |-> "bare"] : op \in HandlingOps, k \in 0 .. MaxBare }

\* The bucket declarations in scope of main's call, innermost first.
BucketLists == UNION { [1 .. n -> BucketDecls] : n \in 0 .. MaxBuckets }

\* The frame of the boiling function.
Leaf == Len(chain) + 1

\* main about to make its call.  The retry globals are reset nowhere, so
\* they hold what earlier call sites left in them: the flag is set exactly
\* when some retry has been counted.
InitGB ==
  /\ IdleButGB
  /\ chain \in Chains
  /\ buckets \in BucketLists
  /\ depth = 1
  /\ gpc = "call"
  /\ currentError = NO_ERROR
  /\ retval = << >>
  /\ xs = [i \in 1 .. Len(chain) |-> << "unset" >>]
  /\ ranNext = { }
  /\ shouldRetry \in BOOLEAN
  /\ retryCount \in 0 .. MAX_RETRIES
  /\ shouldRetry <=> retryCount > 0
  /\ lastEvent = "none"
  /\ reinvoked = 0
  /\ stmt = "none"
  /\ cleanups = 0
  /\ errorHasHandled = FALSE

\* The running frame makes its call: the callee's frame begins.
Descend ==
  /\ gpc = "call"
  /\ depth < Leaf
  /\ depth' = depth + 1
  /\ lastEvent' = "call"
  /\ UNCHANGED <<chain, buckets, gpc, currentError, retval, xs, ranNext,
                 retryCount, shouldRetry, reinvoked, stmt, cleanups,
                 errorHasHandled>>
  /\ UNCHANGED varsButGB

\* boil Err when <condition>: the error is set and the function returns
\* the default of its return type.
Boil(e) ==
  /\ gpc = "call"
  /\ depth = Leaf
  /\ currentError' = e
  /\ retval' = TypeDefault(RType(depth))
  /\ depth' = depth - 1
  /\ gpc' = "check"
  /\ lastEvent' = "boil"
  /\ UNCHANGED <<chain, buckets, xs, ranNext, retryCount, shouldRetry,
                 reinvoked, stmt, cleanups, errorHasHandled>>
  /\ UNCHANGED varsButGB

\* No condition of a boil holds: the function returns its value.
ReturnOk ==
  /\ gpc = "call"
  /\ depth = Leaf
  /\ retval' = NormalValue(RType(depth))
  /\ depth' = depth - 1
  /\ gpc' = "check"
  /\ lastEvent' = "ok"
  /\ UNCHANGED <<chain, buckets, currentError, xs, ranNext, retryCount,
                 shouldRetry, reinvoked, stmt, cleanups, errorHasHandled>>
  /\ UNCHANGED varsButGB

\* What the code after the call reads.
Machine ==
  [err |-> currentError, v |-> retval, rc |-> retryCount, sr |-> shouldRetry,
   bkts |-> buckets, xtype |-> RType(depth + 1)]

\* The frame goes on as the code after its call decided: to its next
\* statements and its own return, to an immediate return of its default,
\* to the call again, or nowhere.
Finish(o) ==
  /\ currentError' = o.err
  /\ retryCount' = o.rc
  /\ shouldRetry' = o.sr
  /\ lastEvent' = o.event
  /\ xs' = [xs EXCEPT ![depth] = o.x]
  /\ \/ /\ o.kind = "next"
        /\ ranNext' = ranNext \cup { depth }
        /\ retval' = NormalValue(RType(depth))
        /\ depth' = depth - 1
        /\ gpc' = IF depth = 1 THEN "done" ELSE "check"
        /\ reinvoked' = reinvoked
     \/ /\ o.kind = "return"
        /\ ranNext' = ranNext
        /\ retval' = TypeDefault(RType(depth))
        /\ depth' = depth - 1
        /\ gpc' = IF depth = 1 THEN "done" ELSE "check"
        /\ reinvoked' = reinvoked
     \/ /\ o.kind = "retry"
        /\ ranNext' = ranNext
        /\ retval' = retval
        /\ depth' = depth
        /\ gpc' = "call"
        /\ reinvoked' = IF reinvoked > MAX_RETRIES THEN reinvoked ELSE reinvoked + 1
     \/ /\ o.kind = "crash"
        /\ ranNext' = ranNext
        /\ retval' = retval
        /\ depth' = depth
        /\ gpc' = "crashed"
        /\ reinvoked' = reinvoked

\* The callee has returned to a frame whose call has operator op.
Check(op) ==
  /\ gpc = "check"
  /\ chain[depth] = op
  /\ Finish(AfterCall(op, Machine))
  /\ UNCHANGED <<chain, buckets, stmt, cleanups, errorHasHandled>>
  /\ UNCHANGED varsButGB

NextGB ==
  \/ Descend
  \/ \E e \in ErrTypes : Boil(e)
  \/ ReturnOk
  \/ \E op \in HandlingOps \cup { "bare" } : Check(op)

SpecGB == InitGB /\ [][NextGB]_vars

\* A sequential program takes its next step as long as it has one.
SpecGBFair == SpecGB /\ WF_vars(NextGB)

----------------------------------------------------------------------------
(* Guard/Boil: g? { body } finally { cleanup } *)

\* The statement of the guarded body that ends it: a call (process(file) of
\* the example, after which the body completes), or a jump out of it.
GuardStmts == { "call", "return", "break", "continue" }

\* A plausible slip: an early return leaves the block directly.
GuardExitPlainReturn(s) == IF s = "return" THEN "after" ELSE "finally"

\* Where control goes when the body is left by s: "a cleanup that runs on
\* all control flow paths" -- normal completion and a handled error
\* (goto finally_block), an unhandled error (falls through to
\* finally_block), return, break and continue.
GuardExit(s) == "finally"

\* { bool error_has_handled = false; ... : the block is entered with main
\* about to run the body.
InitGuard ==
  /\ IdleButGB
  /\ chain = << "bare" >>
  /\ buckets \in BucketLists
  /\ depth = 1
  /\ gpc = "body"
  /\ currentError = NO_ERROR
  /\ retval = << >>
  /\ xs = << << "unset" >> >>
  /\ ranNext = { }
  /\ shouldRetry = FALSE
  /\ retryCount = 0
  /\ lastEvent = "none"
  /\ reinvoked = 0
  /\ stmt \in GuardStmts
  /\ cleanups = 0
  /\ errorHasHandled = FALSE

\* process(file);
GuardCall ==
  /\ gpc = "body"
  /\ stmt = "call"
  /\ gpc' = "call"
  /\ lastEvent' = "body"
  /\ UNCHANGED <<chain, buckets, depth, currentError, retval, xs, ranNext,
                 retryCount, shouldRetry, reinvoked, stmt, cleanups,
                 errorHasHandled>>
  /\ UNCHANGED varsButGB

\* return, break or continue inside the body.
GuardJump ==
  /\ gpc = "body"
  /\ stmt # "call"
  /\ gpc' = GuardExit(stmt)
  /\ lastEvent' = stmt
  /\ UNCHANGED <<chain, buckets, depth, currentError, retval, xs, ranNext,
                 retryCount, shouldRetry, reinvoked, stmt, cleanups,
                 errorHasHandled>>
  /\ UNCHANGED varsButGB

\* if (__current_error != NO_ERROR) {
\*   if (has_bucket_for(...)) { bucket_handler(...);
\*     __current_error = NO_ERROR; error_has_handled = true;
\*     goto finally_block; } }
\* and otherwise on to finally_block, the error, if any, still pending.
GuardCheck ==
  /\ gpc = "check"
  /\ gpc' = GuardExit(stmt)
  /\ IF currentError # NO_ERROR /\ has_bucket_for(buckets, currentError)
     THEN LET k == BucketFor(buckets, currentError)
          IN  /\ xs' = [xs EXCEPT ![depth] = YieldOf(k)]
              /\ retryCount' = IF buckets[k].retry THEN retryCount + 1 ELSE retryCount
              /\ shouldRetry' = (shouldRetry \/ buckets[k].retry)
              /\ currentError' = NO_ERROR
              /\ errorHasHandled' = TRUE
              /\ lastEvent' = "bucket"
     ELSE /\ lastEvent' = IF currentError # NO_ERROR THEN "propagate" ELSE "ok"
          /\ UNCHANGED <<xs, retryCount, shouldRetry, currentError, errorHasHandled>>
  /\ UNCHANGED <<chain, buckets, depth, retval, ranNext, reinvoked, stmt, cleanups>>
  /\ UNCHANGED varsButGB

\* finally_block: if (file != NULL) File$_close(&file);
GuardFinally ==
  /\ gpc = "finally"
  /\ cleanups' = cleanups + 1
  /\ gpc' = "after"
  /\ UNCHANGED <<chain, buckets, depth, currentError, retval, xs, ranNext,
                 retryCount, shouldRetry, lastEvent, reinvoked, stmt,
                 errorHasHandled>>
  /\ UNCHANGED varsButGB

\* if (!error_has_handled) __builtin_trap(); } -- as written this also
\* traps when the body completed with no error at all.  A jump goes on to
\* where it was going.
GuardLeave ==
  /\ gpc = "after"
  /\ IF stmt = "call" /\ ~errorHasHandled
     THEN gpc' = "crashed" /\ lastEvent' = "trap"
     ELSE gpc' = "done" /\ lastEvent' = lastEvent
  /\ UNCHANGED <<chain, buckets, depth, currentError, retval, xs, ranNext,
                 retryCount, shouldRetry, reinvoked, stmt, cleanups,
                 errorHasHandled>>
  /\ UNCHANGED varsButGB

NextGuard ==
  \/ GuardCall
  \/ GuardJump
  \/ Descend
  \/ \E e \in ErrTypes : Boil(e)
  \/ ReturnOk
  \/ GuardCheck
  \/ GuardFinally
  \/ GuardLeave

SpecGuard == InitGuard /\ [][NextGuard]_vars

----------------------------------------------------------------------------
(* Guard/Boil: what the claims are stated in *)

\* A callee has returned, with an error pending, to a frame whose call has
\* operator op.
FailedCall(op) ==
  gpc = "check" /\ chain[depth] = op /\ currentError # NO_ERROR

\* The nesting levels of the buckets that take an error of type e.
Matching(e) ==
  { k \in DOMAIN buckets : buckets[k].type = e \/ buckets[k].type = "any" }

\* The innermost of them.
Innermost(e) == CHOOSE k \in Matching(e) : \A j \in Matching(e) : k <= j

\* C15: a frame whose bare call returned with an error pending returns at
\* once, its own return type's default as its value, the same error still
\* pending, none of its later statements run; while an error is pending no
\* frame it has passed through has run a later statement.
C15_BarePropagation ==
  /\ [][ FailedCall("bare")
           => /\ depth' = depth - 1
              /\ gpc' = "check"
              /\ retval' = TypeDefault(RType(depth))
              /\ currentError' = currentError
              /\ ranNext' = ranNext ]_vars
  /\ []( (gpc = "check" /\ currentError # NO_ERROR)
           => \A i \in depth + 1 .. Len(chain) : i \notin ranNext )

C15_Witness ==
  /\ gpc = "check"
  /\ depth = 1
  /\ chain = << "!", "bare", "bare" >>
  /\ currentError = "MathError"
  /\ lastEvent = "propagate"
  /\ retval = << "false" >>
  /\ xs[2] = << "" >>
  /\ xs[3] = << "null" >>
  /\ ranNext = { }

\* C16: when a '!' call fails, the innermost bucket in scope whose type is
\* the error's, or which is a catch-all, runs, its yielded value becomes
\* the call's result and the error is cleared; with no such bucket the
\* program is aborted.
C16_BangBucket ==
  [][ FailedCall("!")
        => IF Matching(currentError) # { }
           THEN /\ xs'[depth] = YieldOf(Innermost(currentError))
                /\ currentError' = NO_ERROR
                /\ lastEvent' = "bucket"
                /\ gpc' # "crashed"
           ELSE /\ gpc' = "crashed"
                /\ lastEvent' = "trap" ]_vars

C16_Witness ==
  /\ gpc = "done"
  /\ chain = << "!" >>
  /\ buckets = << [type |-> "any", retry |-> FALSE],
                  [type |-> "MathError", retry |-> FALSE] >>
  /\ lastEvent = "bucket"
  /\ xs[1] = << "yield", "a" >>
  /\ currentError = NO_ERROR

\* C17: when a '?' call fails the error is cleared, the call's result is
\* the default of its type and the frame goes on with its next statement;
\* after any '?' call, failed or not, no error is pending.
C17_QuestDefault ==
  /\ [][ FailedCall("?")
           => /\ currentError' = NO_ERROR
              /\ xs'[depth] = TypeDefault(RType(depth + 1))
              /\ depth \in ranNext'
              /\ gpc' # "crashed" ]_vars
  /\ [][ (gpc = "check" /\ chain[depth] = "?") => currentError' = NO_ERROR ]_vars

C17_Witness ==
  /\ gpc = "done"
  /\ chain = << "?", "bare" >>
  /\ lastEvent = "default"
  /\ xs[1] = << "false" >>
  /\ xs[2] = << "" >>
  /\ ranNext = { 1 }
  /\ currentError = NO_ERROR

GuardLeft == gpc \in { "done", "crashed" }

AlwaysRetry == \A k \in DOMAIN buckets : buckets[k].retry

\* C20: a call site whose buckets request a retry after every failure
\* re-invokes its call at most MAX_RETRIES times, never once the retry
\* count has reached MAX_RETRIES, and the program gets past the call site
\* (returns or aborts) even if the call fails every time.
C20_RetryBounded ==
  /\ [](AlwaysRetry => reinvoked <= MAX_RETRIES)
  /\ [][ (AlwaysRetry /\ retryCount >= MAX_RETRIES) => reinvoked' = reinvoked ]_vars
  /\ AlwaysRetry => <>(gpc \in { "done", "crashed" })

C20_Witness ==
  /\ gpc = "done"
  /\ chain = << "!" >>
  /\ buckets = << [type |-> "any", retry |-> TRUE] >>
  /\ reinvoked = MAX_RETRIES - 1
  /\ retryCount = MAX_RETRIES
  /\ lastEvent = "bucket"
  /\ xs[1] = << "yield", "a" >>

----------------------------------------------------------------------------
(* ByteChunk: losslessness *)

\* The chunks of cs one after the other.
RECURSIVE Concatenation(_)
Concatenation(cs) ==
  IF cs = << >> THEN << >> ELSE Head(cs) \o Concatenation(Tail(cs))

\* s without its leading run of continuation bytes.
FromFirstStart(s) ==
  LET starts == { i \in DOMAIN s : StartValue(s[i]) }
  IN  IF starts = { } THEN << >>
      ELSE SubSeq(s, CHOOSE i \in starts : \A j \in starts : i <= j, Len(s))

----------------------------------------------------------------------------
(* Guard/Boil: the success path of a guard block *)

\* C28: when the body of a guard block has completed with no error at all
\* and the block is left, the cleanup has run and execution is past the
\* block: the trap was not reached.
C28_SuccessPathAlive ==
  (GuardLeft /\ stmt = "call" /\ currentError = NO_ERROR /\ ~errorHasHandled)
    => (gpc = "done" /\ cleanups = 1)

----------------------------------------------------------------------------
(* Identitie: the variable-length encoder and the demonstration's buffer *)

----------------------------------------------------------------------------
(* Guard/Boil: the compiler's error flow analysis,                         *)
(* ErrorFlowAnalyzer.analyze(Function f)                                   *)

\* Bound: the calls of the analysed function.
MaxCalls == 2

\* call.operator
Operators == { "NORMAL", "BANG", "QUESTION" }

\* A call: its operator and get_possible_errors(call.func), the errors the
\* callee is declared to boil.
CallLists ==
  UNION { [1 .. n -> [operator : Operators, errors : SUBSET ErrTypes]] :
            n \in 1 .. MaxCalls }

\* The buckets visible in f's scope, by the type each takes ("any" for the
\* catch-all bucket<t>).
ScopeLists == UNION { [1 .. n -> ErrTypes \cup { "any" }] : n \in 0 .. MaxBuckets }

\* Some bucket of the scope takes an error of type e.
Covered(sc, e) == \E k \in DOMAIN sc : sc[k] \in { e, "any" }

\* A plausible slip: one bucket for one of the errors is enough.
check_bucket_existsForSome(sc, errs) ==
  errs = { } \/ \E e \in errs : Covered(sc, e)

\* check_bucket_exists(f.scope, possible_errors): "f's scope must have
\* bucket for all errors g can produce".
check_bucket_exists(sc, errs) == \A e \in errs : Covered(sc, e)

\* has_handler(f.scope, possible_errors): a bucket or a flow for each.
has_handler(sc, fl, errs) == \A e \in errs : Covered(sc, e) \/ e \in fl

\* Bucket k is required: some '!' call can fail with an error that no other
\* bucket of the scope takes.
Required(k) ==
  \E i \in DOMAIN calls :
    /\ calls[i].operator = "BANG"
    /\ \E e \in calls[i].errors :
         /\ scope[k] \in { e, "any" }
         /\ \A j \in DOMAIN scope \ { k } : scope[j] \notin { e, "any" }

\* The sequence s without its k-th element.
Without(s, k) == SubSeq(s, 1, k - 1) \o SubSeq(s, k + 1, Len(s))

InitAn ==
  /\ IdleButAn
  /\ calls \in CallLists
  /\ scope \in ScopeLists
  /\ declared_errors \in SUBSET ErrTypes
  /\ flows \in { { }, ErrTypes }
  /\ can_produce = { }
  /\ diagnostics = { }
  /\ warnings = { }
  /\ nextCall = 1
  /\ apc = "calls"
  /\ removed = "no"

\* for (call in f.calls) { ... }: one iteration.
AnalyzeCall ==
  /\ apc = "calls"
  /\ LET call == calls[nextCall]
         possible_errors == call.errors
     IN  /\ can_produce' =
              IF call.operator = "NORMAL"
              THEN can_produce \cup possible_errors ELSE can_produce
         /\ diagnostics' =
              IF call.operator = "BANG" /\ ~check_bucket_exists(scope, possible_errors)
              THEN diagnostics \cup { "No bucket in scope" } ELSE diagnostics
         /\ warnings' =
              IF call.operator = "QUESTION" /\ ~has_handler(scope, flows, possible_errors)
              THEN warnings \cup { "Unhandled possible error" } ELSE warnings
  /\ nextCall' = nextCall + 1
  /\ apc' = IF nextCall = Len(calls) THEN "signature" ELSE "calls"
  /\ UNCHANGED <<calls, scope, declared_errors, flows, removed>>
  /\ UNCHANGED varsButAn

\* if (!f.declared_errors.containsAll(f.can_produce))
\*   error("Function produces undeclared errors");
CheckSignature ==
  /\ apc = "signature"
  /\ diagnostics' =
       IF can_produce \subseteq declared_errors THEN diagnostics
       ELSE diagnostics \cup { "Function produces undeclared errors" }
  /\ apc' = "done"
  /\ UNCHANGED <<calls, scope, declared_errors, can_produce, flows, warnings,
                 nextCall, removed>>
  /\ UNCHANGED varsButAn

\* A build that passed is repeated with bucket k deleted from the source.
RemoveBucket(k) ==
  /\ apc = "done"
  /\ diagnostics = { }
  /\ removed = "no"
  /\ k \in DOMAIN scope
  /\ scope' = Without(scope, k)
  /\ removed' = IF Required(k) THEN "required" ELSE "other"
  /\ can_produce' = { }
  /\ warnings' = { }
  /\ nextCall' = 1
  /\ apc' = "calls"
  /\ UNCHANGED <<calls, declared_errors, flows, diagnostics>>
  /\ UNCHANGED varsButAn

NextAn ==
  \/ AnalyzeCall
  \/ CheckSignature
  \/ \E k \in 1 .. MaxBuckets : RemoveBucket(k)

SpecAn == InitAn /\ [][NextAn]_vars

\* C21: the analysis of a function passes only if, for each of its '!'
\* calls, every error the callee is declared to boil is taken by a bucket
\* of the scope (of its type, or a catch-all); and a build that passed
\* fails once a required bucket is removed.
C21_BucketCoverage ==
  /\ (apc = "done" /\ diagnostics = { })
       => \A i \in DOMAIN calls :
            calls[i].operator = "BANG"
              => \A e \in calls[i].errors :
                   \E k \in DOMAIN scope : scope[k] = e \/ scope[k] = "any"
  /\ (apc = "done" /\ removed = "required") => diagnostics # { }

C21_Witness ==
  /\ apc = "done"
  /\ removed = "required"
  /\ calls = << [operator |-> "BANG", errors |-> { "MathError", "IoError" }] >>
  /\ scope = << "MathError" >>
  /\ diagnostics = { "No bucket in scope" }

-----------------------------------------------------------------------------
(* The preprocessor: constants, variables, evaluated blocks and raw source.
   A source text is a sequence of directives, occurrences of names and
   calls of file functions; one file stands for the file system. *)

MaxDirectives == 4   \* directives of a source text that is compiled once
MaxSource == 2       \* directives of a source text that is compiled twice
MaxFile == 2         \* tokens the file holds

Names == { "K", "X" }
Literals == { "1", "2" }
Bodies == Literals \cup { "X" }
Forms == { "block", "source" }   \* {( ... )} or -> ... ; ``` ... ```
DefineOps == { "#def", "#def?", "#set", "#set?" }
RemoveOps == { "#udef", "#udef?", "#uset", "#uset?" }

\* The directives that bind and remove names, and the occurrences of names.
\* A body names no name that is being bound, and the bodies of X no name.
Bindings ==
  { d \in [op : DefineOps, name : Names, form : Forms, body : Bodies] :
      d.body # d.name /\ (d.name = "X" => d.body \notin Names) }
    \cup [op : RemoveOps, name : Names, form : { "" }, body : { "" }]
    \cup [op : { "use" }, name : Names, form : { "" }, body : { "" }]

\* The occurrences of a built-in constant and the calls of file functions.
Environmental ==
  [op : { "use" }, name : { "$Debug" }, form : { "" }, body : { "" }]
    \cup [op : { "@file_exists", "@file_read", "@file_delete" },
          name : { "" }, form : { "" }, body : { "" }]
    \cup [op : { "@file_write", "@file_append" },
          name : { "" }, form : { "" }, body : Literals]

Directives == Bindings \cup Environmental

NoDirective == [op |-> "none", name |-> "", form |-> "", body |-> ""]
Unbound ==
  [kind |-> "none", form |-> "", body |-> "", stored |-> "", atDef |-> ""]
NoFile == [exists |-> FALSE, content |-> << >>]
FileStates ==
  { NoFile } \cup
  { [exists |-> TRUE, content |-> c] :
      c \in UNION { [1 .. n -> Literals] : n \in 0 .. MaxFile } }

\* What a token of a body stands for in an environment: the expansion of
\* the name it is, or itself.
Eval(tok, env) ==
  IF tok \in Names /\ env[tok].kind # "none"
  THEN (IF env[tok].form = "block" THEN env[tok].stored ELSE env[tok].body)
  ELSE tok

\* A binding made now: an evaluated block runs once and its result is
\* stored, raw source is stored as code. atDef keeps, for both, what the
\* body stood for when the binding was made.
Bind(d, kind, env) ==
  [kind |-> kind, form |-> d.form, body |-> d.body,
   stored |-> IF d.form = "block" THEN Eval(d.body, env) ELSE d.body,
   atDef |-> Eval(d.body, env)]

\* What an occurrence of a bound name is replaced with.
ExpansionEveryUse(b, env) == Eval(b.body, env)
Expansion(b, env) ==
  IF b.form = "block" THEN b.stored ELSE Eval(b.body, env)

\* The directives that stop the compilation with an error: the ones the
\* safe versions exist for, and reading a file that is not there.
Fails(d, env, fl) ==
  \/ d.op = "#def" /\ env[d.name].kind # "none"
  \/ d.op = "#udef" /\ env[d.name].kind # "def"
  \/ d.op = "#set" /\ env[d.name].kind = "def"
  \/ d.op = "#uset" /\ env[d.name].kind # "set"
  \/ d.op = "@file_read" /\ ~fl.exists

NewDefsOverwrite(d, env) ==
  CASE d.op \in { "#def", "#def?" } ->
         [env EXCEPT ![d.name] = Bind(d, "def", env)]
    [] d.op \in { "#set", "#set?" } ->
         [env EXCEPT ![d.name] = Bind(d, "set", env)]
    [] d.op \in { "#udef", "#udef?" } ->
         IF env[d.name].kind = "def"
         THEN [env EXCEPT ![d.name] = Unbound] ELSE env
    [] d.op \in { "#uset", "#uset?" } ->
         IF env[d.name].kind = "set"
         THEN [env EXCEPT ![d.name] = Unbound] ELSE env
    [] OTHER -> env
NewDefs(d, env) ==
  CASE d.op \in { "#def", "#def?" } ->
         IF env[d.name].kind = "none"
         THEN [env EXCEPT ![d.name] = Bind(d, "def", env)] ELSE env
    [] d.op \in { "#set", "#set?" } ->
         IF env[d.name].kind # "def"
         THEN [env EXCEPT ![d.name] = Bind(d, "set", env)] ELSE env
    [] d.op \in { "#udef", "#udef?" } ->
         IF env[d.name].kind = "def"
         THEN [env EXCEPT ![d.name] = Unbound] ELSE env
    [] d.op \in { "#uset", "#uset?" } ->
         IF env[d.name].kind = "set"
         THEN [env EXCEPT ![d.name] = Unbound] ELSE env
    [] OTHER -> env

\* The tokens a directive leaves in the expanded source text.
Emitted(d, env, fl, dbg) ==
  CASE d.op = "use" /\ d.name = "$Debug" ->
         << IF dbg THEN "true" ELSE "false" >>
    [] d.op = "use" /\ d.name \in Names ->
         IF env[d.name].kind = "none" THEN << d.name >>
         ELSE << Expansion(env[d.name], env) >>
    [] d.op = "@file_exists" -> << IF fl.exists THEN "true" ELSE "false" >>
    [] d.op = "@file_read" -> fl.content
    [] OTHER -> << >>

NewFiles(d, fl) ==
  CASE d.op = "@file_write" -> [exists |-> TRUE, content |-> << d.body >>]
    [] d.op = "@file_append" ->
         [exists |-> TRUE, content |-> Append(fl.content, d.body)]
    [] d.op = "@file_delete" -> NoFile
    [] OTHER -> fl

\* A compilation starts with no name bound and nothing expanded. The file
\* system and the build mode are whatever they are.
InitRuns ==
  /\ IdleButPP
  /\ defs = [n \in Names |-> Unbound]
  /\ expanded = << >>
  /\ directive = NoDirective
  /\ aborted = FALSE
  /\ files \in FileStates
  /\ Debug \in BOOLEAN
  /\ source = << >>
  /\ run = 1
  /\ dp = 0
  /\ firstExpanded = << >>

\* A source text of bindings and names only: no file, a release build.
InitPP == InitRuns /\ files = NoFile /\ Debug = FALSE

\* One directive, name or call of the source text is processed.
Step(d) ==
  /\ ~aborted
  /\ d.op = "@file_append" => Len(files.content) < MaxFile
  /\ directive' = d
  /\ dp' = dp + 1
  /\ IF Fails(d, defs, files)
     THEN aborted' = TRUE /\ UNCHANGED <<defs, expanded, files>>
     ELSE /\ defs' = NewDefs(d, defs)
          /\ expanded' = expanded \o Emitted(d, defs, files, Debug)
          /\ files' = NewFiles(d, files)
          /\ UNCHANGED aborted
  /\ UNCHANGED Debug
  /\ UNCHANGED varsButPP

Process ==
  /\ run = 1
  /\ dp < MaxDirectives
  /\ \E d \in Bindings : Step(d)
  /\ UNCHANGED <<source, run, firstExpanded>>

NextPP == Process
SpecPP == InitPP /\ [][NextPP]_vars

\* The same source text is compiled a second time: the first compilation
\* reads it, the second meets what the first left in the file system.
Read ==
  /\ run = 1
  /\ Len(source) < MaxSource
  /\ \E d \in Directives : Step(d) /\ source' = Append(source, d)
  /\ UNCHANGED <<run, firstExpanded>>

Again ==
  /\ run = 1
  /\ source # << >>
  /\ run' = 2
  /\ firstExpanded' = expanded
  /\ defs' = [n \in Names |-> Unbound]
  /\ expanded' = << >>
  /\ directive' = NoDirective
  /\ aborted' = FALSE
  /\ dp' = 0
  /\ UNCHANGED <<files, Debug, source>>
  /\ UNCHANGED varsButPP

Replay ==
  /\ run = 2
  /\ dp < Len(source)
  /\ Step(source[dp + 1])
  /\ UNCHANGED <<source, run, firstExpanded>>

NextRuns == Read \/ Again \/ Replay
SpecRuns == InitRuns /\ [][NextRuns]_vars

C23_Binding ==
  [][ /\ \A n \in Names :
           (defs[n].kind = "def"
              /\ ~(directive'.op \in { "#udef", "#udef?" }
                     /\ directive'.name = n))
             => defs'[n] = defs[n]
      /\ \A n \in Names :
           directive'.name = n =>
             /\ (directive'.op = "#def" /\ defs[n].kind = "def") => aborted'
             /\ (directive'.op = "#def?" /\ defs[n].kind = "def")
                  => ~aborted' /\ defs' = defs
             /\ (directive'.op = "#udef?" /\ defs[n].kind # "def")
                  => ~aborted' /\ defs' = defs
             /\ (directive'.op = "#set" /\ defs[n].kind = "set")
                  => /\ ~aborted'
                     /\ defs'[n].kind = "set"
                     /\ defs'[n].body = directive'.body
                     /\ defs'[n].form = directive'.form ]_ppVars

C23_Witness ==
  /\ directive.op = "#def?" /\ directive.name = "K"
  /\ defs["K"].kind = "def"
  /\ defs["K"].body # directive.body
  /\ ~aborted

\* C24: a second compilation of the same source text, with the same
\* built-in constants, ends with the same expanded source text.
C24_Deterministic ==
  (run = 2 /\ (aborted \/ dp = Len(source))) => expanded = firstExpanded

-----------------------------------------------------------------------------
(* Static tables: key canonicalization, validation, lowering to an array
   and the access forms. A key is its kind and its spelling in the source,
   character by character; an internal string is a sequence of characters. *)

MaxKeys == 3   \* entries of a declaration

StringKeys ==
  { [kind |-> "string", spelling |-> s] :
      s \in { << >>, << "a" >>, << "$" >> } }
CharacterKeys ==
  { [kind |-> "character", spelling |-> << c >>] : c \in { "A", "$" } }
IntegerKeys ==
  { [kind |-> "integer", spelling |-> s] :
      s \in { << "1", "0" >>, << "0", "x", "F", "F" >>, << "2", "5", "5" >>,
              << "-", "1" >>, << "0", "b", "1", "0", "1", "0" >> } }
BooleanKeys ==
  { [kind |-> "boolean", spelling |-> << "t", "r", "u", "e" >>],
    [kind |-> "boolean", spelling |-> << "f", "a", "l", "s", "e" >>] }
NullKeys == { [kind |-> "null", spelling |-> << "n", "u", "l", "l" >>] }
Keys ==
  StringKeys \cup CharacterKeys \cup IntegerKeys \cup BooleanKeys
    \cup NullKeys

\* Integer literals: an optional sign, an optional 0x, 0b or 0o, digits.
DigitChars ==
  << "0", "1", "2", "3", "4", "5", "6", "7", "8", "9",
     "A", "B", "C", "D", "E", "F" >>
DigitValue(c) == CHOOSE v \in 0 .. 15 : DigitChars[v + 1] = c
Negative(sp) == sp[1] = "-"
Unsigned(sp) == IF Negative(sp) THEN Tail(sp) ELSE sp
Prefixed(sp) == Len(sp) > 2 /\ sp[1] = "0" /\ sp[2] \in { "x", "b", "o" }
KeyRadix(sp) ==
  IF ~Prefixed(sp) THEN 10
  ELSE CASE sp[2] = "x" -> 16 [] sp[2] = "b" -> 2 [] sp[2] = "o" -> 8
KeyDigits(sp) == IF Prefixed(sp) THEN SubSeq(sp, 3, Len(sp)) ELSE sp

RECURSIVE Magnitude(_, _, _)
Magnitude(ds, radix, acc) ==
  IF ds = << >> THEN acc
  ELSE Magnitude(Tail(ds), radix, acc * radix + DigitValue(Head(ds)))

IntegerValue(sp) ==
  Magnitude(KeyDigits(Unsigned(sp)), KeyRadix(Unsigned(sp)), 0)

Pow10(n) == CASE n = 0 -> 1 [] n = 1 -> 10 [] n = 2 -> 100 [] n = 3 -> 1000
              [] n = 4 -> 10000 [] n = 5 -> 100000 [] n = 6 -> 1000000
DecimalLen(v) == CHOOSE n \in 1 .. 6 : v < Pow10(n) /\ (n = 1 \/ v >= Pow10(n - 1))
Decimal(v) ==
  [i \in 1 .. DecimalLen(v) |->
     DigitChars[((v \div Pow10(DecimalLen(v) - i)) % 10) + 1]]

\* The canonical internal string of a key.
Canon(k) ==
  CASE k.kind = "string" -> << "$", "$" >> \o k.spelling
    [] k.kind = "character" -> << "$" >> \o k.spelling
    [] k.kind = "integer" ->
         IF Negative(k.spelling)
         THEN << "_" >> \o Decimal(IntegerValue(k.spelling))
         ELSE Decimal(IntegerValue(k.spelling)) \o << >>
    [] k.kind \in { "boolean", "null" } -> << "Z" >> \o k.spelling

\* Unique after normalization.
UniqueNeighbours(int) ==
  \A i \in DOMAIN int : i + 1 \in DOMAIN int => int[i] # int[i + 1]
Unique(int) == \A i, j \in DOMAIN int : i # j => int[i] # int[j]

\* The compile-time mapping key -> index: the positions of the
\* declaration, from zero.
KeyIndexesFromOne(int) == { << int[i], i >> : i \in DOMAIN int }
KeyIndexes(int) == { << int[i], i - 1 >> : i \in DOMAIN int }

Known(map, k) == \E m \in map : m[1] = Canon(k)
KeyIndex(map, k) == (CHOOSE m \in map : m[1] = Canon(k))[2]

\* The declarations: tables of up to MaxKeys entries, with values that
\* differ or are all the same, and the table Colors of syntax.md.
ValueNames == << "v0", "v1", "v2", "v3", "v4", "v5" >>
Colors ==
  [keys |-> << [kind |-> "string", spelling |-> << "r", "e", "d" >>],
               [kind |-> "integer",
                spelling |-> << "0", "x", "0", "0", "F", "F", "0", "0" >>],
               [kind |-> "integer", spelling |-> << "1", "0" >>],
               [kind |-> "character", spelling |-> << "A" >>] >>,
   values |-> << "red color", "green hex", "special", "capital" >>]
ValueLists(n) ==
  { [i \in 1 .. n |-> ValueNames[i]], [i \in 1 .. n |-> ValueNames[1]] }

NoAccess == [form |-> "none", operand |-> 0, outcome |-> "none", result |-> ""]

InitTb ==
  /\ IdleButTb
  /\ \/ keys = Colors.keys /\ values = Colors.values
     \/ \E n \in 1 .. MaxKeys :
          keys \in [1 .. n -> Keys] /\ values \in ValueLists(n)
  /\ internal = << >>
  /\ mapping = { }
  /\ table_data = << >>
  /\ access = NoAccess
  /\ tpc = "declared"

Normalize ==
  /\ tpc = "declared"
  /\ internal' = [i \in DOMAIN keys |-> Canon(keys[i])] \o << >>
  /\ tpc' = "normalized"
  /\ UNCHANGED <<keys, values, mapping, table_data, access>>
  /\ UNCHANGED varsButTb

Validate ==
  /\ tpc = "normalized"
  /\ tpc' = IF Unique(internal) THEN "accepted" ELSE "rejected"
  /\ UNCHANGED <<keys, values, internal, mapping, table_data, access>>
  /\ UNCHANGED varsButTb

Lower ==
  /\ tpc = "accepted"
  /\ table_data' = values
  /\ mapping' = KeyIndexes(internal)
  /\ tpc' = "lowered"
  /\ UNCHANGED <<keys, values, internal, access>>
  /\ UNCHANGED varsButTb

\* One access of the program is compiled, or run.
Accessed(a) ==
  /\ tpc = "lowered"
  /\ access' = a
  /\ tpc' = "accessed"
  /\ UNCHANGED <<keys, values, internal, mapping, table_data>>
  /\ UNCHANGED varsButTb

\* Name[key]: resolved at compile time, lowered to Name_table[INDEX].
KeyAccess ==
  \E k \in Keys \cup { keys[i] : i \in DOMAIN keys } :
    Accessed(IF Known(mapping, k)
             THEN [form |-> "[]", operand |-> k, outcome |-> "value",
                   result |-> table_data[KeyIndex(mapping, k) + 1]]
             ELSE [form |-> "[]", operand |-> k, outcome |-> "error",
                   result |-> ""])

\* Name::key: the index of the key.
IndexAccess ==
  \E k \in Keys \cup { keys[i] : i \in DOMAIN keys } :
    Accessed(IF Known(mapping, k)
             THEN [form |-> "::", operand |-> k, outcome |-> "index",
                   result |-> KeyIndex(mapping, k)]
             ELSE [form |-> "::", operand |-> k, outcome |-> "error",
                   result |-> ""])

\* Name:[i]: no bounds check; an invalid index is undefined behavior.
UnsafeAccess ==
  \E i \in 0 .. MaxKeys + 1 :
    IF i < Len(table_data)
    THEN Accessed([form |-> ":[]", operand |-> i, outcome |-> "value",
                   result |-> table_data[i + 1]])
    ELSE \/ \E v \in { ValueNames[1], ValueNames[2] } :
              Accessed([form |-> ":[]", operand |-> i,
                        outcome |-> "undefined", result |-> v])
         \/ Accessed([form |-> ":[]", operand |-> i, outcome |-> "crash",
                      result |-> ""])

\* Name![i]: bounds check, panics on an invalid index.
CheckedAccess ==
  \E i \in 0 .. MaxKeys + 1 :
    Accessed(IF i < Len(table_data)
             THEN [form |-> "![]", operand |-> i, outcome |-> "value",
                   result |-> table_data[i + 1]]
             ELSE [form |-> "![]", operand |-> i, outcome |-> "panic",
                   result |-> ""])

\* Name?[i]: none if the index is out of range.
OptionalAccess ==
  \E i \in 0 .. MaxKeys + 1 :
    Accessed(IF i < Len(table_data)
             THEN [form |-> "?[]", operand |-> i, outcome |-> "value",
                   result |-> table_data[i + 1]]
             ELSE [form |-> "?[]", operand |-> i, outcome |-> "none",
                   result |-> ""])

\* The program goes on to its next access.
Continue ==
  /\ tpc = "accessed"
  /\ tpc' = "lowered"
  /\ access' = NoAccess
  /\ UNCHANGED <<keys, values, internal, mapping, table_data>>
  /\ UNCHANGED varsButTb

NextTb ==
  \/ Normalize
  \/ Validate
  \/ Lower
  \/ KeyAccess
  \/ IndexAccess
  \/ UnsafeAccess
  \/ CheckedAccess
  \/ OptionalAccess
  \/ Continue
SpecTb == InitTb /\ [][NextTb]_vars

Decided == tpc \in { "accepted", "rejected", "lowered", "accessed" }
Lowered == tpc \in { "lowered", "accessed" }
Has(sp) == \E i \in DOMAIN keys : keys[i].spelling = sp

\* C25: a declaration is rejected exactly when two of its keys have the
\* same canonical internal string, as 0xFF and 255 have; every other
\* declaration is accepted.
C25_DuplicateKeys ==
  Decided =>
    /\ tpc = "rejected"
         <=> \E i, j \in DOMAIN keys :
               i < j /\ Canon(keys[i]) = Canon(keys[j])
    /\ (Has(<< "0", "x", "F", "F" >>) /\ Has(<< "2", "5", "5" >>))
         => tpc = "rejected"

C25_Witness ==
  /\ tpc = "rejected"
  /\ keys = << [kind |-> "integer", spelling |-> << "0", "x", "F", "F" >>],
               [kind |-> "string", spelling |-> << "a" >>],
               [kind |-> "integer", spelling |-> << "2", "5", "5" >>] >>
  /\ internal = << << "2", "5", "5" >>, << "$", "$", "a" >>,
                   << "2", "5", "5" >> >>

C29_KindsApart ==
  Decided =>
    /\ \A i, j \in DOMAIN keys :
         keys[i].kind # keys[j].kind => internal[i] # internal[j]
    /\ (keys = << [kind |-> "character", spelling |-> << "$" >>],
                  [kind |-> "string", spelling |-> << >>] >>)
         => tpc # "rejected"

====
